---------------------------- MODULE Spec2Model ----------------------------
(***************************************************************************)
(* A model of the metric-aggregation, grading and comparison logic of      *)
(* src/Dashboard.py.                                                        *)
(*                                                                         *)
(* Conventions.                                                            *)
(*  - A float is modelled as an exact rational <<n, d>> with d > 0 in      *)
(*    lowest terms; NaN / None ("missing") is the pair <<0, 0>>.           *)
(*  - A DataFrame is a sequence of rows; a row of the normalized table is  *)
(*    a record [IP, metric, media, ep, value] for the columns "IP",        *)
(*    "metric", "매체", "회차_numeric" and "value".  A missing episode     *)
(*    number (NaN in "회차_numeric") is NaNEp.                              *)
(*  - A raw sheet cell is a sequence of one-character strings.             *)
(***************************************************************************)
EXTENDS Integers, Sequences, FiniteSets

VARIABLES
    df,      \* the normalized table a call works on (load_data(), or one IP's rows)
    ret,     \* the last call made on df: [fn, metric, media, n, val]
    series,  \* the vector handed to _quintile_grade
    grades,  \* what _quintile_grade returned for it: [labels, out]
    base,    \* the cross-IP frame of render_growth_score:
             \* [axis, raw, grade, pct_mean, overall]
    demo,    \* the frames of render_demographic: [df_base, df_comp, df_index, done]
    heatmap, \* what render_heatmap drew: [shown, range, text]
    view,    \* what a view function did: a record with a field "name"
    sheet,   \* the records of the worksheet
    cache    \* the st.cache_data entry of load_data and the clock

vars == <<df, ret, series, grades, base, demo, heatmap, view, sheet, cache>>

-----------------------------------------------------------------------------
(* Exact rational arithmetic standing in for float64.                      *)

RECURSIVE Gcd(_, _)
Gcd(a, b) == IF b = 0 THEN a ELSE Gcd(b, a % b)

Abs(x) == IF x < 0 THEN -x ELSE x

NaN == <<0, 0>>

IsNaN(q) == q[2] = 0

\* n/d in lowest terms with a positive denominator (d # 0)
Rat(n, d) ==
    LET g == Gcd(Abs(n), Abs(d))
        s == IF d < 0 THEN -1 ELSE 1
    IN  <<(s * n) \div g, (s * d) \div g>>

RInt(n) == <<n, 1>>

RAdd(p, q) == Rat(p[1] * q[2] + q[1] * p[2], p[2] * q[2])
RSub(p, q) == Rat(p[1] * q[2] - q[1] * p[2], p[2] * q[2])
RMul(p, q) == Rat(p[1] * q[1], p[2] * q[2])
\* q # 0
RDiv(p, q) == Rat(p[1] * q[2], p[2] * q[1])
RLt(p, q)  == p[1] * q[2] < q[1] * p[2]
RLe(p, q)  == p[1] * q[2] <= q[1] * p[2]
IsZero(q)  == q[2] # 0 /\ q[1] = 0

\* sum of a sequence of rationals
RECURSIVE RSum(_)
RSum(s) == IF s = <<>> THEN RInt(0) ELSE RAdd(Head(s), RSum(Tail(s)))

\* Series.mean() of a non-empty sequence of rationals
RMean(s) == RDiv(RSum(s), RInt(Len(s)))

\* the elements of a finite set of naturals in ascending order
RECURSIVE SortedSeq(_)
SortedSeq(S) ==
    IF S = {} THEN <<>>
    ELSE LET m == CHOOSE x \in S : \A y \in S : x <= y
         IN  <<m>> \o SortedSeq(S \ {m})

-----------------------------------------------------------------------------
(* Record Normalizer: _df_basic_clean.                                     *)

Digits == {"0", "1", "2", "3", "4", "5", "6", "7", "8", "9"}

DigitVal(c) ==
    CASE c = "0" -> 0 [] c = "1" -> 1 [] c = "2" -> 2 [] c = "3" -> 3
      [] c = "4" -> 4 [] c = "5" -> 5 [] c = "6" -> 6 [] c = "7" -> 7
      [] c = "8" -> 8 [] c = "9" -> 9

\* the number a sequence of digit characters denotes
RECURSIVE DigitsToNat(_)
DigitsToNat(s) ==
    IF s = <<>> THEN 0
    ELSE 10 * DigitsToNat(SubSeq(s, 1, Len(s) - 1)) + DigitVal(s[Len(s)])

RECURSIVE Pow10(_)
Pow10(k) == IF k = 0 THEN 1 ELSE 10 * Pow10(k - 1)

\* pd.to_numeric(errors="coerce") of one string cell: an optional sign, digits
\* with at most one decimal point and at least one digit; anything else is NaN
ToNumericStr(v) ==
    LET signed == v # <<>> /\ Head(v) \in {"-", "+"}
        body   == IF signed THEN Tail(v) ELSE v
        dots   == {i \in DOMAIN body : body[i] = "."}
        digs   == SelectSeq(body, LAMBDA c : c \in Digits)
        wellformed ==
            /\ \A i \in DOMAIN body : body[i] \in Digits \cup {"."}
            /\ Cardinality(dots) <= 1
            /\ digs # <<>>
        frac   == IF dots = {} THEN 0
                  ELSE Len(body) - (CHOOSE i \in dots : TRUE)
        sgn    == IF signed /\ Head(v) = "-" THEN -1 ELSE 1
    IN  IF wellformed THEN Rat(sgn * DigitsToNat(digs), Pow10(frac)) ELSE NaN

\* fillna(0) left out
Mut_CleanValue_nofill(cell) ==
    ToNumericStr(SelectSeq(cell, LAMBDA c : c \notin {",", "%"}))

\* the "value" column: "," and "%" removed, parsed, NaN filled with 0
CleanValue(cell) ==
    LET v == SelectSeq(cell, LAMBDA c : c \notin {",", "%"})
        x == ToNumericStr(v)
    IN  IF IsNaN(x) THEN RInt(0) ELSE x

NaNEp == -1

\* the digits of the whole label instead of its first run
Mut_EpisodeNumeric_alldigits(label) ==
    IF \A i \in DOMAIN label : label[i] \notin Digits THEN NaNEp
    ELSE DigitsToNat(SelectSeq(label, LAMBDA c : c \in Digits))

\* "회차_numeric": str.extract(r"(\d+)") of the episode label, as a number
EpisodeNumeric(label) ==
    LET starts == {i \in DOMAIN label : label[i] \in Digits}
    IN  IF starts = {} THEN NaNEp
        ELSE LET a == CHOOSE i \in starts : \A j \in starts : i <= j
                 b == CHOOSE j \in a..Len(label) :
                        /\ \A k \in a..j : label[k] \in Digits
                        /\ (j = Len(label) \/ label[j + 1] \notin Digits)
             IN  DigitsToNat(SubSeq(label, a, b))

\* one raw sheet row [IP, metric, media, label, value] normalized
CleanRow(r) ==
    [IP |-> r.IP, metric |-> r.metric, media |-> r.media,
     ep |-> EpisodeNumeric(r.label), value |-> CleanValue(r.value)]

_df_basic_clean(raw) == [i \in 1..Len(raw) |-> CleanRow(raw[i])]

-----------------------------------------------------------------------------
(* pandas building blocks.                                                 *)

\* the media argument: None, or a list of media names
MediaNone == <<FALSE, {}>>
MediaList(S) == <<TRUE, S>>

\* mutant: the zero is kept (no replace(0, np.nan))
Mut_ReplaceZero_keep(v) == v

\* sub["value"].replace(0, np.nan): a zero becomes NaN, all else is kept
ReplaceZero(v) == IF IsZero(v) THEN NaN ELSE v

\* the values of a Series (a function from index keys to rationals), in some
\* order
RECURSIVE SeriesValues(_)
SeriesValues(f) ==
    IF DOMAIN f = {} THEN <<>>
    ELSE LET k == CHOOSE x \in DOMAIN f : TRUE
         IN  <<f[k]>> \o SeriesValues([x \in DOMAIN f \ {k} |-> f[x]])

\* the "value" column of a frame
ColValue(sub) == [i \in 1..Len(sub) |-> sub[i].value]

\* the rows of one (IP, episode) group, of one IP, of one episode
RowsOfIPEp(sub, k) == SelectSeq(sub, LAMBDA r : r.IP = k[1] /\ r.ep = k[2])
RowsOfIP(sub, ip)  == SelectSeq(sub, LAMBDA r : r.IP = ip)
RowsOfEp(sub, ep)  == SelectSeq(sub, LAMBDA r : r.ep = ep)

\* sub.groupby(["IP", ep_col])["value"].sum() and .mean(): one aggregate per
\* (IP, episode) present in sub
GroupByIPEpSum(sub) ==
    [k \in {<<sub[i].IP, sub[i].ep>> : i \in DOMAIN sub} |->
        RSum(ColValue(RowsOfIPEp(sub, k)))]
GroupByIPEpMean(sub) ==
    [k \in {<<sub[i].IP, sub[i].ep>> : i \in DOMAIN sub} |->
        RMean(ColValue(RowsOfIPEp(sub, k)))]

\* sub.groupby("IP")["value"].sum()
GroupByIPSum(sub) ==
    [ip \in {sub[i].IP : i \in DOMAIN sub} |-> RSum(ColValue(RowsOfIP(sub, ip)))]

\* frame.groupby("IP")["value"].mean() of a frame indexed by <<IP, episode>>
GroupByIPMean(byIpEp) ==
    [ip \in {k[1] : k \in DOMAIN byIpEp} |->
        RMean(SeriesValues(
            [k \in {x \in DOMAIN byIpEp : x[1] = ip} |-> byIpEp[k]]))]

\* rows of the wanted metric and, when a media list is given, of those media
FilterMetricMedia(frame, metric_name, media) ==
    LET sub == SelectSeq(frame, LAMBDA r : r.metric = metric_name)
    IN  IF media[1] THEN SelectSeq(sub, LAMBDA r : r.media \in media[2])
        ELSE sub

\* sub.dropna(subset=[ep_col])
DropNaEp(sub) == SelectSeq(sub, LAMBDA r : r.ep # NaNEp)

\* value -> to_numeric -> replace(0, NaN), then dropna(subset=["value"])
DropZeroValue(sub) ==
    SelectSeq([i \in 1..Len(sub) |-> [sub[i] EXCEPT !.value = ReplaceZero(sub[i].value)]],
              LAMBDA r : ~IsNaN(r.value))

-----------------------------------------------------------------------------
(* Metric aggregators.                                                     *)

\* mutant: the per-episode reduction is a mean, not a sum
Mut_episode_sum_as_mean(frame, metric_name, media) ==
    LET sub == FilterMetricMedia(frame, metric_name, media)
    IN  IF sub = <<>> THEN NaN
        ELSE LET kept        == DropZeroValue(DropNaEp(sub))
                 ep_sum      == GroupByIPEpMean(kept)
                 per_ip_mean == GroupByIPMean(ep_sum)
             IN  IF DOMAIN per_ip_mean = {} THEN NaN
                 ELSE RMean(SeriesValues(per_ip_mean))

mean_of_ip_episode_sum(frame, metric_name, media) ==
    LET sub == FilterMetricMedia(frame, metric_name, media)
    IN  IF sub = <<>> THEN NaN
        ELSE LET kept        == DropZeroValue(DropNaEp(sub))
                 ep_sum      == GroupByIPEpSum(kept)
                 per_ip_mean == GroupByIPMean(ep_sum)
             IN  IF DOMAIN per_ip_mean = {} THEN NaN
                 ELSE RMean(SeriesValues(per_ip_mean))

\* mutant: one mean per IP over all its rows, no per-episode stage
Mut_episode_mean_flat(frame, metric_name, media) ==
    LET sub == FilterMetricMedia(frame, metric_name, media)
    IN  IF sub = <<>> THEN NaN
        ELSE LET kept        == DropZeroValue(DropNaEp(sub))
                 per_ip_mean == [ip \in {kept[i].IP : i \in DOMAIN kept} |->
                                    RMean(ColValue(RowsOfIP(kept, ip)))]
             IN  IF DOMAIN per_ip_mean = {} THEN NaN
                 ELSE RMean(SeriesValues(per_ip_mean))

mean_of_ip_episode_mean(frame, metric_name, media) ==
    LET sub == FilterMetricMedia(frame, metric_name, media)
    IN  IF sub = <<>> THEN NaN
        ELSE LET kept        == DropZeroValue(DropNaEp(sub))
                 ep_mean     == GroupByIPEpMean(kept)
                 per_ip_mean == GroupByIPMean(ep_mean)
             IN  IF DOMAIN per_ip_mean = {} THEN NaN
                 ELSE RMean(SeriesValues(per_ip_mean))

\* mutant: rows without episode number are dropped, as in the other reducers
Mut_ip_sums_dropna_ep(frame, metric_name, media) ==
    LET sub == FilterMetricMedia(frame, metric_name, media)
    IN  IF sub = <<>> THEN NaN
        ELSE LET kept       == DropZeroValue(DropNaEp(sub))
                 per_ip_sum == GroupByIPSum(kept)
             IN  IF DOMAIN per_ip_sum = {} THEN NaN
                 ELSE RMean(SeriesValues(per_ip_sum))

\* mutant: an empty result is reported as 0.0
Mut_ip_sums_empty_zero(frame, metric_name, media) ==
    LET sub == FilterMetricMedia(frame, metric_name, media)
    IN  IF sub = <<>> THEN NaN
        ELSE LET kept       == DropZeroValue(sub)
                 per_ip_sum == GroupByIPSum(kept)
             IN  IF DOMAIN per_ip_sum = {} THEN RInt(0)
                 ELSE RMean(SeriesValues(per_ip_sum))

mean_of_ip_sums(frame, metric_name, media) ==
    LET sub == FilterMetricMedia(frame, metric_name, media)
    IN  IF sub = <<>> THEN NaN
        ELSE LET kept       == DropZeroValue(sub)
                 per_ip_sum == GroupByIPSum(kept)
             IN  IF DOMAIN per_ip_sum = {} THEN NaN
                 ELSE RMean(SeriesValues(per_ip_sum))

-----------------------------------------------------------------------------
(* Inputs of the aggregator specification: raw sheets of at most MaxRows   *)
(* rows, normalized by _df_basic_clean.  No modelled operation depends on  *)
(* the order of the rows, so one ordering of each multiset of rows is      *)
(* drawn.  Names: "T_rating" is "T시청률", "H_rating" is "H시청률",           *)
(* "viewers" is "시청인구".                                                  *)

MaxRows == 3

IPNames == <<"A", "B">>

MetricMedia == <<(<<"viewers", "TVING LIVE">>), (<<"viewers", "TVING VOD">>)>>

EpLabels == <<(<<"E", "P">>), (<<"1">>), (<<"0", "2">>)>>

RawValueCells == <<(<<"a", "b", "c">>), (<<"0">>), (<<"-", "2">>), (<<"4", "%">>)>>

NRawRows == Len(IPNames) * Len(MetricMedia) * Len(EpLabels) * Len(RawValueCells)

\* the k-th raw row (k in 1..NRawRows): one choice per column
RawRowAt(k) ==
    LET a == k - 1
        i == a % Len(IPNames)
        b == a \div Len(IPNames)
        m == b % Len(MetricMedia)
        c == b \div Len(MetricMedia)
        l == c % Len(EpLabels)
        v == c \div Len(EpLabels)
    IN  [IP |-> IPNames[i + 1], metric |-> MetricMedia[m + 1][1],
         media |-> MetricMedia[m + 1][2], label |-> EpLabels[l + 1],
         value |-> RawValueCells[v + 1]]

\* the raw table whose i-th row is the s[i]-th raw row
RawTable(s) == [i \in DOMAIN s |-> RawRowAt(s[i])]

\* one index sequence per multiset of rows: the non-decreasing ones
NonDecreasing(s) == \A i \in 2..Len(s) : s[i - 1] <= s[i]

\* section 8 of the specification: IP X, target rating, episodes 1..3
ScenarioRaw ==
    <<[IP |-> "X", metric |-> "T_rating", media |-> "TV", label |-> <<"1">>, value |-> <<"2">>],
      [IP |-> "X", metric |-> "T_rating", media |-> "TV", label |-> <<"2">>, value |-> <<"3">>],
      [IP |-> "X", metric |-> "T_rating", media |-> "TV", label |-> <<"3">>, value |-> <<"4">>]>>

CallArgs ==
    {<<"T_rating", MediaNone>>, <<"viewers", MediaNone>>,
     <<"viewers", MediaList({"TVING LIVE"})>>}

NoGrades == [labels |-> <<>>, out |-> <<>>]

NoBase == [axis |-> "", raw |-> <<>>, grade |-> <<>>, pct_mean |-> <<>>, overall |-> <<>>]

NoDemo == [df_base |-> <<>>, df_comp |-> <<>>, df_index |-> <<>>, done |-> FALSE]

NoHeatmap == [shown |-> FALSE, range |-> <<>>, text |-> <<>>]

NoView == [name |-> ""]

\* nothing cached; the clock at 0
NoCache ==
    [filled |-> FALSE, at |-> 0, value |-> <<>>, now |-> 0, reads |-> 0, failed |-> FALSE]

NoCall == [fn |-> "none", metric |-> "", media |-> MediaNone, n |-> 0, val |-> NaN]

-----------------------------------------------------------------------------
(* The aggregator specification: a table is loaded and one reducer is      *)
(* called on it.  A reducer leaves the table as it is, so a further call   *)
(* would start from the same table; each behaviour makes one call.         *)

InitAgg ==
    /\ \/ \E m \in 0..MaxRows : \E s \in [1..m -> 1..NRawRows] :
             NonDecreasing(s) /\ df = _df_basic_clean(RawTable(s))
       \/ df = _df_basic_clean(ScenarioRaw)
    /\ ret = NoCall
    /\ series = <<>>
    /\ grades = NoGrades
    /\ base = NoBase
    /\ demo = NoDemo
    /\ heatmap = NoHeatmap
    /\ view = NoView
    /\ sheet = <<>>
    /\ cache = NoCache

Call_mean_of_ip_episode_sum ==
    \E a \in CallArgs :
        /\ ret = NoCall
        /\ ret' = [fn |-> "mean_of_ip_episode_sum", metric |-> a[1], media |-> a[2],
                   n |-> 0, val |-> mean_of_ip_episode_sum(df, a[1], a[2])]
        /\ UNCHANGED <<df, series, grades, base, demo, heatmap, view, sheet, cache>>

Call_mean_of_ip_episode_mean ==
    \E a \in CallArgs :
        /\ ret = NoCall
        /\ ret' = [fn |-> "mean_of_ip_episode_mean", metric |-> a[1], media |-> a[2],
                   n |-> 0, val |-> mean_of_ip_episode_mean(df, a[1], a[2])]
        /\ UNCHANGED <<df, series, grades, base, demo, heatmap, view, sheet, cache>>

Call_mean_of_ip_sums ==
    \E a \in CallArgs :
        /\ ret = NoCall
        /\ ret' = [fn |-> "mean_of_ip_sums", metric |-> a[1], media |-> a[2],
                   n |-> 0, val |-> mean_of_ip_sums(df, a[1], a[2])]
        /\ UNCHANGED <<df, series, grades, base, demo, heatmap, view, sheet, cache>>

NextAgg ==
    \/ Call_mean_of_ip_episode_sum
    \/ Call_mean_of_ip_episode_mean
    \/ Call_mean_of_ip_sums

SpecAgg == InitAgg /\ [][NextAgg]_vars

-----------------------------------------------------------------------------
(* Reference reductions, written from the specification's wording: index   *)
(* sets over the table instead of the staged frames of the code.           *)

\* the sum of the values of a function from a finite set to rationals
RECURSIVE RefSum(_)
RefSum(f) ==
    IF DOMAIN f = {} THEN RInt(0)
    ELSE LET k == CHOOSE x \in DOMAIN f : TRUE
         IN  RAdd(f[k], RefSum([x \in DOMAIN f \ {k} |-> f[x]]))

\* the mean of the values of a function on a non-empty finite set
RefAvg(f) == RDiv(RefSum(f), RInt(Cardinality(DOMAIN f)))

\* rows of the metric (and media), with a non-zero value and, when needEp,
\* with an episode number
RefKept(frame, metric_name, media, needEp) ==
    {i \in DOMAIN frame :
        /\ frame[i].metric = metric_name
        /\ media[1] => frame[i].media \in media[2]
        /\ needEp => frame[i].ep # NaNEp
        /\ ~IsZero(frame[i].value)}

RefIPs(frame, K) == {frame[i].IP : i \in K}
RefEps(frame, K, ip) == {frame[i].ep : i \in {j \in K : frame[j].IP = ip}}

RefCell(frame, K, ip, ep) == {i \in K : frame[i].IP = ip /\ frame[i].ep = ep}

\* per (IP, episode): the mean, or the sum, of the kept values
RefEpisodeValue(frame, K, ip, ep, useSum) ==
    LET vals == [i \in RefCell(frame, K, ip, ep) |-> frame[i].value]
    IN  IF useSum THEN RefSum(vals) ELSE RefAvg(vals)

\* mean over IPs of the mean over episodes of the per-episode value
RefEpisodeReduction(frame, metric_name, media, useSum) ==
    LET K == RefKept(frame, metric_name, media, TRUE)
    IN  RefAvg([ip \in RefIPs(frame, K) |->
                  RefAvg([ep \in RefEps(frame, K, ip) |->
                            RefEpisodeValue(frame, K, ip, ep, useSum)])])

\* mean over IPs of the sum of the kept values of the IP
RefIpSums(frame, metric_name, media) ==
    LET K == RefKept(frame, metric_name, media, FALSE)
    IN  RefAvg([ip \in RefIPs(frame, K) |->
                  RefSum([i \in {j \in K : frame[j].IP = ip} |-> frame[i].value])])

\* the reducer named fn applied to a table
Reducer(fn, frame, metric_name, media) ==
    CASE fn = "mean_of_ip_episode_sum"  -> mean_of_ip_episode_sum(frame, metric_name, media)
      [] fn = "mean_of_ip_episode_mean" -> mean_of_ip_episode_mean(frame, metric_name, media)
      [] fn = "mean_of_ip_sums"         -> mean_of_ip_sums(frame, metric_name, media)

RemoveAt(s, i) == SubSeq(s, 1, i - 1) \o SubSeq(s, i + 1, Len(s))

ScenarioTable == _df_basic_clean(ScenarioRaw)

-----------------------------------------------------------------------------
(* C1: mean_of_ip_episode_mean equals the reference: rows of the metric    *)
(* (and media) with an episode number and a non-zero value, averaged per   *)
(* (IP, episode), then per IP, then across IPs; the scenario table (one    *)
(* IP, episodes 1,2,3 valued 2,3,4) yields 3.                              *)
C1_EpisodeMeanIsReference ==
    ret.fn = "mean_of_ip_episode_mean" =>
        /\ RefKept(df, ret.metric, ret.media, TRUE) # {} =>
               ret.val = RefEpisodeReduction(df, ret.metric, ret.media, FALSE)
        /\ (df = ScenarioTable /\ ret.metric = "T_rating" /\ ret.media = MediaNone) =>
               ret.val = RInt(3)

\* two IPs, one of them with an episode of several rows, and the scenario
C1_Witness ==
    /\ ret.fn = "mean_of_ip_episode_mean"
    /\ LET K == RefKept(df, ret.metric, ret.media, TRUE)
       IN  /\ Cardinality(RefIPs(df, K)) = 2
           /\ \E i \in K, j \in K :
                  i # j /\ df[i].IP = df[j].IP /\ df[i].ep = df[j].ep
                        /\ df[i].value # df[j].value
    /\ ~IsNaN(ret.val)

(* C2: mean_of_ip_episode_sum filters like mean_of_ip_episode_mean, sums   *)
(* each (IP, episode) group, averages the sums per IP and the per-IP       *)
(* values across IPs.                                                      *)
C2_EpisodeSumIsReference ==
    ret.fn = "mean_of_ip_episode_sum" =>
        (RefKept(df, ret.metric, ret.media, TRUE) # {} =>
            ret.val = RefEpisodeReduction(df, ret.metric, ret.media, TRUE))

\* an episode whose rows of two media add up
C2_Witness ==
    /\ ret.fn = "mean_of_ip_episode_sum"
    /\ LET K == RefKept(df, ret.metric, ret.media, TRUE)
       IN  \E i \in K, j \in K :
              /\ df[i].IP = df[j].IP /\ df[i].ep = df[j].ep
              /\ df[i].media # df[j].media
              /\ ret.val = RAdd(df[i].value, df[j].value)
              /\ ret.val # RDiv(RAdd(df[i].value, df[j].value), RInt(2))

(* C3: mean_of_ip_sums(table, metric) is the mean across IPs of each IP's  *)
(* sum of non-zero values of the metric; a row without episode number      *)
(* contributes, and the number of episodes plays no part.                  *)
C3_IpSumsIsReference ==
    (ret.fn = "mean_of_ip_sums" /\ ret.media = MediaNone) =>
        (RefKept(df, ret.metric, ret.media, FALSE) # {} =>
            ret.val = RefIpSums(df, ret.metric, ret.media))

\* a row without episode number enters the sum of its IP
C3_Witness ==
    /\ ret.fn = "mean_of_ip_sums" /\ ret.media = MediaNone
    /\ LET K == RefKept(df, ret.metric, ret.media, FALSE)
       IN  /\ Cardinality(RefIPs(df, K)) = 2
           /\ \E i \in K : df[i].ep = NaNEp
           /\ \E i \in K, j \in K : df[i].IP = df[j].IP /\ df[i].ep # df[j].ep
    /\ ret.val # mean_of_ip_sums(DropNaEp(df), ret.metric, ret.media)

\* the table with one row taken out gives the reducer of the last call the
\* same result
SameWithoutRow(i) ==
    Reducer(ret.fn, RemoveAt(df, i), ret.metric, ret.media) = ret.val

(* C4 as stated: in all three reducers a row whose value is non-numeric    *)
(* (0 after normalization), zero or negative is absent: removing it (or    *)
(* adding it) never changes the result.                                    *)
C4_NonPositiveRowsAreAbsent ==
    ret.fn # "none" =>
        \A i \in DOMAIN df : df[i].value[1] <= 0 => SameWithoutRow(i)

(* C4 amended: in all three reducers a row whose value is non-numeric (0   *)
(* after normalization) or zero is absent: removing it (or adding it)      *)
(* never changes the result.  A negative value is kept.                    *)
C4_ZeroRowsAreAbsent ==
    ret.fn # "none" =>
        \A i \in DOMAIN df : IsZero(df[i].value) => SameWithoutRow(i)

\* a zero row shares the (IP, episode) group of a row that counts
C4_Witness ==
    /\ ret.fn = "mean_of_ip_episode_mean" /\ ~IsNaN(ret.val)
    /\ \E i \in DOMAIN df, j \in RefKept(df, ret.metric, ret.media, TRUE) :
          /\ IsZero(df[i].value) /\ df[i].metric = ret.metric
          /\ df[i].IP = df[j].IP /\ df[i].ep = df[j].ep
          /\ ret.val = df[j].value

\* the rows left after each filtering stage of the reducer named fn
StageMetric(fn) == {i \in DOMAIN df : df[i].metric = ret.metric}
StageMedia(fn) ==
    {i \in StageMetric(fn) : ret.media[1] => df[i].media \in ret.media[2]}
StageEpisode(fn) ==
    {i \in StageMedia(fn) : fn # "mean_of_ip_sums" => df[i].ep # NaNEp}
StageValue(fn) == {i \in StageEpisode(fn) : ~IsZero(df[i].value)}

(* C5: each reducer returns the missing value, not 0, when no row          *)
(* survives the metric filter, the media filter, the missing-episode drop  *)
(* or the zero-value drop.                                                 *)
C5_MissingWhenNothingSurvives ==
    ret.fn # "none" =>
        ((\/ StageMetric(ret.fn) = {} \/ StageMedia(ret.fn) = {}
          \/ StageEpisode(ret.fn) = {} \/ StageValue(ret.fn) = {})
            => IsNaN(ret.val) /\ ret.val # RInt(0))

\* rows pass every filter but the zero-value drop
C5_Witness ==
    /\ ret.fn = "mean_of_ip_sums"
    /\ StageEpisode(ret.fn) # {} /\ StageValue(ret.fn) = {}
    /\ IsNaN(ret.val)

-----------------------------------------------------------------------------
(* Ranking and grading engine: Series.rank and _quintile_grade.            *)

ROW_LABELS == <<"S", "A", "B", "C", "D">>
COL_LABELS == <<"+2", "+1", "0", "-1", "-2">>

\* a missing grade: NaN in a column of labels ("nan" once cast to str)
NaNGrade == "nan"

\* s.dropna(): the positions that hold a number
ValidIdx(s) == {i \in DOMAIN s : ~IsNaN(s[i])}

\* mutant: every position counts, missing or not
Mut_ValidCount_all(s) == Len(s)

\* the number of ranked values: the denominator of rank(pct=True)
ValidCount(s) == Cardinality(ValidIdx(s))

RECURSIVE SumSet(_)
SumSet(S) ==
    IF S = {} THEN 0 ELSE LET x == CHOOSE y \in S : TRUE IN x + SumSet(S \ {x})

\* the positions I of s, by ascending value (ascending position among equals)
RECURSIVE SortAscIdx(_, _)
SortAscIdx(s, I) ==
    IF I = {} THEN <<>>
    ELSE LET m == CHOOSE i \in I :
                    \A j \in I : RLt(s[i], s[j]) \/ (s[i] = s[j] /\ i <= j)
         IN  <<m>> \o SortAscIdx(s, I \ {m})

Reverse(q) == [i \in 1..Len(q) |-> q[Len(q) + 1 - i]]

\* rank(method="average"): each valid position gets the mean of the places
\* its value takes in the sorted order (ascending, or descending)
RankAverage(s, ascending) ==
    LET asc == SortAscIdx(s, ValidIdx(s))
        RanksIn(order) ==
            [i \in ValidIdx(s) |->
                LET places == {j \in DOMAIN order : s[order[j]] = s[i]}
                IN  Rat(SumSet(places), Cardinality(places))]
    IN  \* the order is computed once
        CHOOSE r \in {RanksIn(o) : o \in {IF ascending THEN asc ELSE Reverse(asc)}} : TRUE

\* rank(method="average", pct=True): the rank over the number of ranked values
RankPct(s, ascending) ==
    LET count == RInt(ValidCount(s))
        Over(ranks) == [i \in DOMAIN ranks |-> RDiv(ranks[i], count)]
    IN  CHOOSE r \in {Over(ranks) : ranks \in {RankAverage(s, ascending)}} : TRUE

\* mutant: four bins of a quarter each
Mut_QuintileBins_quarters ==
    <<RInt(0), Rat(1, 4), Rat(2, 4), Rat(3, 4), RInt(1), Rat(10000001, 10000000)>>

\* bins = [0, .2, .4, .6, .8, 1.0000001]
QuintileBins ==
    <<RInt(0), Rat(1, 5), Rat(2, 5), Rat(3, 5), Rat(4, 5), Rat(10000001, 10000000)>>

\* mutant: np.digitize(x, bins, right=False), bins[i-1] <= x < bins[i]
Mut_Digitize_left(x, bins) == Cardinality({j \in DOMAIN bins : RLe(bins[j], x)})

\* np.digitize(x, bins, right=True): the i with bins[i-1] < x <= bins[i]
Digitize(x, bins) == Cardinality({j \in DOMAIN bins : RLt(bins[j], x)})

\* np.clip
Clip(i, lo, hi) == IF i < lo THEN lo ELSE IF i > hi THEN hi ELSE i

\* mutant: the ranks taken in ascending order
Mut_quintile_grade_ascending(s, labels) ==
    IF ValidIdx(s) = {} THEN [i \in DOMAIN s |-> NaNGrade]
    ELSE LET Out(ranks) ==
                 [i \in DOMAIN s |->
                    IF i \in DOMAIN ranks
                    THEN LET idx == Clip(Digitize(ranks[i], QuintileBins) - 1, 0, 4)
                         IN  labels[idx + 1]
                    ELSE NaNGrade]
         IN  CHOOSE g \in {Out(ranks) : ranks \in {RankPct(s, TRUE)}} : TRUE

_quintile_grade(s, labels) ==
    IF ValidIdx(s) = {} THEN [i \in DOMAIN s |-> NaNGrade]
    ELSE LET Out(ranks) ==
                 [i \in DOMAIN s |->
                    IF i \in DOMAIN ranks
                    THEN LET idx == Clip(Digitize(ranks[i], QuintileBins) - 1, 0, 4)
                         IN  labels[idx + 1]
                    ELSE NaNGrade]
         IN  CHOOSE g \in {Out(ranks) : ranks \in {RankPct(s, FALSE)}} : TRUE

-----------------------------------------------------------------------------
(* The grading specification: a vector of at most MaxN raw values, each a  *)
(* number in 1..MaxVal or missing, is graded once.                         *)

MaxN == 5
MaxVal == 5

GradeInputs == {NaN} \cup {RInt(v) : v \in 1..MaxVal}

InitGrade ==
    /\ \E n \in 0..MaxN : series \in [1..n -> GradeInputs]
    /\ grades = NoGrades
    /\ df = <<>>
    /\ ret = NoCall
    /\ base = NoBase
    /\ demo = NoDemo
    /\ heatmap = NoHeatmap
    /\ view = NoView
    /\ sheet = <<>>
    /\ cache = NoCache

Call_quintile_grade ==
    \E labels \in {ROW_LABELS, COL_LABELS} :
        /\ grades = NoGrades
        /\ grades' = [labels |-> labels, out |-> _quintile_grade(series, labels)]
        /\ UNCHANGED <<df, ret, series, base, demo, heatmap, view, sheet, cache>>

NextGrade == Call_quintile_grade

SpecGrade == InitGrade /\ [][NextGrade]_vars

\* the values ranked above position i, and those equal to it
Better(i) == {j \in DOMAIN series : ~IsNaN(series[j]) /\ RLt(series[i], series[j])}
Equal(i)  == {j \in DOMAIN series : ~IsNaN(series[j]) /\ series[j] = series[i]}
NumValid  == Cardinality({j \in DOMAIN series : ~IsNaN(series[j])})

\* the bin of p = num/den among [0,.2], (.2,.4], (.4,.6], (.6,.8], (.8,1]
BinOf(num, den) ==
    IF 5 * num <= den THEN 1
    ELSE IF 5 * num <= 2 * den THEN 2
    ELSE IF 5 * num <= 3 * den THEN 3
    ELSE IF 5 * num <= 4 * den THEN 4 ELSE 5

AllDistinct ==
    \A i \in DOMAIN series, j \in DOMAIN series :
        (~IsNaN(series[i]) /\ ~IsNaN(series[j]) /\ i # j) => series[i] # series[j]

(* C6: _quintile_grade ranks the non-missing values in descending order,   *)
(* ties averaged, as p = rank/count, and labels by the bins [0,.2],        *)
(* (.2,.4], (.4,.6], (.6,.8], (.8,1]; with N >= 5 distinct values every    *)
(* value among the best 20% receives the top label.                        *)
C6_QuintileBinsAndTop ==
    grades.labels # <<>> =>
        \A i \in DOMAIN series : ~IsNaN(series[i]) =>
            \* p = (#better + (#equal + 1) / 2) / N
            /\ grades.out[i] =
                 grades.labels[BinOf(2 * Cardinality(Better(i)) + Cardinality(Equal(i)) + 1,
                                     2 * NumValid)]
            /\ (NumValid >= 5 /\ AllDistinct /\ 5 * (Cardinality(Better(i)) + 1) <= NumValid)
                  => grades.out[i] = grades.labels[1]

\* five distinct values: the best one is graded S, the others are not
C6_Witness ==
    /\ grades.labels = ROW_LABELS
    /\ NumValid >= 5 /\ AllDistinct
    /\ \E i \in DOMAIN series :
          /\ ~IsNaN(series[i]) /\ Better(i) = {} /\ grades.out[i] = "S"
          /\ \A j \in DOMAIN series : j # i => grades.out[j] # "S"

(* C7: a missing input gets a missing grade, never a label; the missing    *)
(* inputs do not count in the rank denominator of the others (the other    *)
(* grades are those of the vector without its missing entries); all        *)
(* missing in, all missing out.                                            *)
C7_MissingInMissingOut ==
    grades.labels # <<>> =>
        /\ \A k \in DOMAIN grades.labels : grades.labels[k] # NaNGrade
        /\ \A i \in DOMAIN series : IsNaN(series[i]) <=> grades.out[i] = NaNGrade
        /\ SelectSeq(grades.out, LAMBDA g : g # NaNGrade)
             = _quintile_grade(SelectSeq(series, LAMBDA v : ~IsNaN(v)), grades.labels)

\* two ranked values beside a missing one: the grades are those of a vector
\* of two (B and D), not of three (A, C, D)
C7_Witness ==
    /\ grades.labels = ROW_LABELS
    /\ Len(series) = 3 /\ NumValid = 2 /\ AllDistinct
    /\ \E i \in DOMAIN series : IsNaN(series[i]) /\ grades.out[i] = NaNGrade
    /\ \E i \in DOMAIN series : grades.out[i] = "B"
    /\ \E i \in DOMAIN series : grades.out[i] = "D"

-----------------------------------------------------------------------------
(* Trend statistic of render_growth_score: _filter_to_ep, _series_for_reg  *)
(* and _slope.  ep_cutoff, a variable of the enclosing function in the     *)
(* code, is a parameter here.  A media keyword k of METRICS ("LIVE",       *)
(* "VOD") is the argument MediaList({k}), no keyword is MediaNone.         *)

EP_CHOICES == <<2, 4, 6, 8, 10, 12, 14, 16>>

\* (metric, media keyword) of the tracked metrics
METRICS ==
    <<(<<"H_rating", MediaNone>>), (<<"T_rating", MediaNone>>),
      (<<"viewers", MediaList({"LIVE"})>>), (<<"viewers", MediaList({"VOD"})>>)>>

\* mutant: episodes strictly below the cutoff
Mut_filter_to_ep_strict(frame, n) ==
    SelectSeq(frame, LAMBDA r : r.ep # NaNEp /\ r.ep < n)

\* mutant: no row is filtered out
Mut_filter_to_ep_none(frame, n) == frame

\* rows whose episode number is at most n (a missing number compares False)
_filter_to_ep(frame, n) ==
    SelectSeq(frame, LAMBDA r : r.ep # NaNEp /\ r.ep <= n)

\* sub.groupby("회차_numeric")["value"].mean() and .sum()
GroupByEpMean(sub) ==
    [ep \in {sub[i].ep : i \in DOMAIN sub} |-> RMean(ColValue(RowsOfEp(sub, ep)))]
GroupByEpSum(sub) ==
    [ep \in {sub[i].ep : i \in DOMAIN sub} |-> RSum(ColValue(RowsOfEp(sub, ep)))]

\* the points <<x, y>> by ascending episode, or <<>> for None
_series_for_reg(ip_df, metric, media, ep_cutoff) ==
    LET sub0 == SelectSeq(ip_df, LAMBDA r : r.metric = metric)
        sub1 == IF media = MediaList({"LIVE"})
                THEN SelectSeq(sub0, LAMBDA r : r.media = "TVING LIVE")
                ELSE IF media = MediaList({"VOD"})
                THEN SelectSeq(sub0, LAMBDA r : r.media = "TVING VOD")
                ELSE sub0
        sub2 == _filter_to_ep(sub1, ep_cutoff)
        sub  == DropNaEp(DropZeroValue(sub2))
    IN  IF sub = <<>> THEN <<>>
        ELSE LET s == IF metric \in {"H_rating", "T_rating"}
                      THEN GroupByEpMean(sub) ELSE GroupByEpSum(sub)
                 x == SortedSeq(DOMAIN s)
             IN  IF Len(x) >= 2 THEN [i \in 1..Len(x) |-> <<RInt(x[i]), s[x[i]]>>]
                 ELSE <<>>

\* np.polyfit(x, y, 1)[0]: the least-squares slope of at least two points
\* with distinct x
Polyfit1Slope(xy) ==
    LET n   == RInt(Len(xy))
        Sx  == RSum([i \in 1..Len(xy) |-> xy[i][1]])
        Sy  == RSum([i \in 1..Len(xy) |-> xy[i][2]])
        Sxy == RSum([i \in 1..Len(xy) |-> RMul(xy[i][1], xy[i][2])])
        Sxx == RSum([i \in 1..Len(xy) |-> RMul(xy[i][1], xy[i][1])])
    IN  RDiv(RSub(RMul(n, Sxy), RMul(Sx, Sy)), RSub(RMul(n, Sxx), RMul(Sx, Sx)))

_slope(ip_df, metric, media, ep_cutoff) ==
    LET xy == _series_for_reg(ip_df, metric, media, ep_cutoff)
    IN  IF xy = <<>> THEN NaN ELSE Polyfit1Slope(xy)

-----------------------------------------------------------------------------
(* The trend specification: the rows of one IP (at most MaxTrendRows raw   *)
(* rows, or the scenario rows), a tracked metric and one of the first      *)
(* MaxCutoffIdx cutoffs of EP_CHOICES.                                     *)

MaxTrendRows == 3
MaxCutoffIdx == 2

TrendMetricMedia ==
    <<(<<"T_rating", "TV">>), (<<"viewers", "TVING LIVE">>), (<<"viewers", "TVING VOD">>)>>

TrendEpLabels == <<(<<"E", "P">>), (<<"1">>), (<<"2">>), (<<"3">>)>>

TrendValueCells == <<(<<"0">>), (<<"2">>), (<<"4">>)>>

NTrendRows == Len(TrendMetricMedia) * Len(TrendEpLabels) * Len(TrendValueCells)

TrendRowAt(k) ==
    LET a == k - 1
        m == a % Len(TrendMetricMedia)
        c == a \div Len(TrendMetricMedia)
        l == c % Len(TrendEpLabels)
        v == c \div Len(TrendEpLabels)
    IN  [IP |-> "X", metric |-> TrendMetricMedia[m + 1][1],
         media |-> TrendMetricMedia[m + 1][2], label |-> TrendEpLabels[l + 1],
         value |-> TrendValueCells[v + 1]]

InitTrend ==
    /\ \/ \E m \in 0..MaxTrendRows : \E s \in [1..m -> 1..NTrendRows] :
             NonDecreasing(s) /\ df = _df_basic_clean([i \in DOMAIN s |-> TrendRowAt(s[i])])
       \/ df = _df_basic_clean(ScenarioRaw)
    /\ ret = NoCall
    /\ series = <<>>
    /\ grades = NoGrades
    /\ base = NoBase
    /\ demo = NoDemo
    /\ heatmap = NoHeatmap
    /\ view = NoView
    /\ sheet = <<>>
    /\ cache = NoCache

Call_slope ==
    \E m \in DOMAIN METRICS, c \in 1..MaxCutoffIdx :
        /\ ret = NoCall
        /\ ret' = [fn |-> "_slope", metric |-> METRICS[m][1], media |-> METRICS[m][2],
                   n |-> EP_CHOICES[c],
                   val |-> _slope(df, METRICS[m][1], METRICS[m][2], EP_CHOICES[c])]
        /\ UNCHANGED <<df, series, grades, base, demo, heatmap, view, sheet, cache>>

NextTrend == Call_slope

SpecTrend == InitTrend /\ [][NextTrend]_vars

\* the media a keyword of METRICS selects
TrendMedia(media) ==
    IF media = MediaList({"LIVE"}) THEN MediaList({"TVING LIVE"})
    ELSE IF media = MediaList({"VOD"}) THEN MediaList({"TVING VOD"})
    ELSE MediaNone

\* rows of the call's metric and media with a non-zero value and an episode
\* number at most the cutoff
TrendKept ==
    {i \in RefKept(df, ret.metric, TrendMedia(ret.media), TRUE) : df[i].ep <= ret.n}

TrendEps == {df[i].ep : i \in TrendKept}

\* the reduced value of an episode: mean for ratings, sum for audience counts
TrendY(ep) ==
    LET vals == [i \in {j \in TrendKept : df[j].ep = ep} |-> df[i].value]
    IN  IF ret.metric = "viewers" THEN RefSum(vals) ELSE RefAvg(vals)

\* the centred sums of the least-squares normal equation
TrendXBar == RefAvg([ep \in TrendEps |-> RInt(ep)])
TrendYBar == RefAvg([ep \in TrendEps |-> TrendY(ep)])
TrendSxx ==
    RefSum([ep \in TrendEps |->
        RMul(RSub(RInt(ep), TrendXBar), RSub(RInt(ep), TrendXBar))])
TrendSxy ==
    RefSum([ep \in TrendEps |->
        RMul(RSub(RInt(ep), TrendXBar), RSub(TrendY(ep), TrendYBar))])

(* C8: the trend slope is missing exactly when fewer than two distinct     *)
(* episode numbers up to the cutoff carry a non-zero value; otherwise it   *)
(* is the least-squares slope of the per-episode value (mean for ratings,  *)
(* sum for audience counts) against the episode number: positive for a     *)
(* strictly increasing series, 0 for a constant one, and 1 for the values  *)
(* 2,3,4 at episodes 1,2,3.                                                *)
C8_SlopeIsLeastSquares ==
    ret.fn = "_slope" =>
        /\ IsNaN(ret.val) <=> Cardinality(TrendEps) < 2
        /\ Cardinality(TrendEps) >= 2 =>
              /\ RMul(ret.val, TrendSxx) = TrendSxy
              /\ (\A a \in TrendEps, b \in TrendEps : a < b => RLt(TrendY(a), TrendY(b)))
                    => RLt(RInt(0), ret.val)
              /\ (\A a \in TrendEps, b \in TrendEps : TrendY(a) = TrendY(b))
                    => ret.val = RInt(0)
        /\ (df = ScenarioTable /\ ret.metric = "T_rating" /\ ret.n >= 3)
              => ret.val = RInt(1)

\* an audience series rising from episode 1 to 2; the cutoff leaves a
\* third, later episode out
C8_Witness ==
    /\ ret.fn = "_slope" /\ ret.metric = "viewers" /\ ret.n = 2
    /\ TrendEps = {1, 2}
    /\ \E i \in DOMAIN df :
          /\ df[i].metric = "viewers" /\ df[i].media \in TrendMedia(ret.media)[2]
          /\ df[i].ep = 3 /\ ~IsZero(df[i].value)
    /\ ret.val = RInt(2)

-----------------------------------------------------------------------------
(* Cross-IP grading of render_growth_score: per-metric grades, percentile  *)
(* ranks and the overall grade of one axis (absolute level, or trend).     *)
(* base.raw holds one row per IP: its raw value of each tracked metric.    *)

ABS_SCORE(g) ==
    CASE g = "S" -> 5 [] g = "A" -> 4 [] g = "B" -> 3 [] g = "C" -> 2 [] g = "D" -> 1

\* mutant: a percentile read off the letter grade of the value
Mut_to_percentile_of_grade(s) ==
    LET g == _quintile_grade(s, ROW_LABELS)
    IN  [i \in DOMAIN s |-> IF g[i] = NaNGrade THEN NaN ELSE RInt(20 * ABS_SCORE(g[i]))]

\* s.rank(pct=True) * 100: ascending, ties averaged, missing stays missing
_to_percentile(s) ==
    LET Times100(ranks) ==
            [i \in DOMAIN s |->
                IF i \in DOMAIN ranks THEN RMul(ranks[i], RInt(100)) ELSE NaN]
    IN  CHOOSE p \in {Times100(ranks) : ranks \in {RankPct(s, TRUE)}} : TRUE

\* base[column of metric m]
Column(raw, m) == [i \in DOMAIN raw |-> raw[i][m]]

\* DataFrame.mean(axis=1) of one row: the missing cells are skipped
RowMean(cells) ==
    LET present == SelectSeq(cells, LAMBDA v : ~IsNaN(v))
    IN  IF present = <<>> THEN NaN ELSE RMean(present)

\* pd.concat([_to_percentile(column) for each metric], axis=1).mean(axis=1)
PctMean(raw) ==
    LET MeanOf(pct) == [i \in DOMAIN raw |-> RowMean([m \in DOMAIN METRICS |-> pct[m][i]])]
    IN  CHOOSE r \in {MeanOf(pct) :
                        pct \in {[m \in DOMAIN METRICS |-> _to_percentile(Column(raw, m))]}} : TRUE

AxisLabels(axis) == IF axis = "abs" THEN ROW_LABELS ELSE COL_LABELS

\* the columns added to base for one axis
GradeBase(raw, axis) ==
    LET Graded(pct_mean) ==
            [axis     |-> axis,
             raw      |-> raw,
             grade    |-> [m \in DOMAIN METRICS |->
                             _quintile_grade(Column(raw, m), AxisLabels(axis))],
             pct_mean |-> pct_mean,
             overall  |-> _quintile_grade(pct_mean, AxisLabels(axis))]
    IN  CHOOSE b \in {Graded(pm) : pm \in {PctMean(raw)}} : TRUE

-----------------------------------------------------------------------------
(* The overall-grade specification: the loop over the IPs appends one row  *)
(* per IP, at most MaxIPs of them, the raw value of the m-th metric drawn  *)
(* from BaseValues[m]; then the frame is graded.  The grades of an IP do   *)
(* not depend on the order of the rows, so the rows of each multiset are   *)
(* appended in one order.                                                  *)

MaxIPs == 6

BaseValues ==
    <<(<<RInt(1), RInt(2), RInt(3)>>),
      (<<NaN, RInt(1), RInt(2)>>),
      (<<RInt(1)>>),
      (<<NaN>>)>>

NBaseRows ==
    Len(BaseValues[1]) * Len(BaseValues[2]) * Len(BaseValues[3]) * Len(BaseValues[4])

BaseRowAt(k) ==
    LET a  == k - 1
        i1 == a % Len(BaseValues[1])
        b  == a \div Len(BaseValues[1])
        i2 == b % Len(BaseValues[2])
        c  == b \div Len(BaseValues[2])
        i3 == c % Len(BaseValues[3])
        i4 == c \div Len(BaseValues[3])
    IN  <<BaseValues[1][i1 + 1], BaseValues[2][i2 + 1],
          BaseValues[3][i3 + 1], BaseValues[4][i4 + 1]>>

BaseRowIndex(row) == CHOOSE k \in 1..NBaseRows : BaseRowAt(k) = row

InitOverall ==
    /\ base = NoBase
    /\ df = <<>>
    /\ ret = NoCall
    /\ series = <<>>
    /\ grades = NoGrades
    /\ demo = NoDemo
    /\ heatmap = NoHeatmap
    /\ view = NoView
    /\ sheet = <<>>
    /\ cache = NoCache

\* one turn of "for ip in ips": rows.append(row)
Append_row ==
    \E k \in 1..NBaseRows :
        /\ base.axis = ""
        /\ Len(base.raw) < MaxIPs
        /\ base.raw # <<>> => BaseRowIndex(base.raw[Len(base.raw)]) <= k
        /\ base' = [base EXCEPT !.raw = Append(base.raw, BaseRowAt(k))]
        /\ UNCHANGED <<df, ret, series, grades, demo, heatmap, view, sheet, cache>>

Grade_base ==
    \E axis \in {"abs", "slope"} :
        /\ base.axis = ""
        /\ base.raw # <<>>
        /\ \E graded \in {GradeBase(base.raw, axis)} : base' = graded
        /\ UNCHANGED <<df, ret, series, grades, demo, heatmap, view, sheet, cache>>

NextOverall ==
    \/ Append_row
    \/ Grade_base

SpecOverall == InitOverall /\ [][NextOverall]_vars

\* the IPs with a value of metric m, and the metrics IP i has a value of
OvValid(m)   == {i \in DOMAIN base.raw : ~IsNaN(base.raw[i][m])}
OvMetrics(i) == {m \in DOMAIN METRICS : ~IsNaN(base.raw[i][m])}

\* the percentile rank of IP i on metric m among the IPs that have one:
\* 100 * (#lower + (#equal + 1) / 2) / N
PctRef(m, i) ==
    LET lower == {j \in OvValid(m) : RLt(base.raw[j][m], base.raw[i][m])}
        equal == {j \in OvValid(m) : base.raw[j][m] = base.raw[i][m]}
    IN  Rat(100 * (2 * Cardinality(lower) + Cardinality(equal) + 1),
            2 * Cardinality(OvValid(m)))

MeanPctRef(i) ==
    IF OvMetrics(i) = {} THEN NaN ELSE RefAvg([m \in OvMetrics(i) |-> PctRef(m, i)])

\* the IPs whose mean percentile is above that of i, and equal to it
OvBetter(i) ==
    {j \in DOMAIN base.raw :
        ~IsNaN(base.pct_mean[j]) /\ RLt(base.pct_mean[i], base.pct_mean[j])}
OvEqual(i)  == {j \in DOMAIN base.raw : base.pct_mean[j] = base.pct_mean[i]}
OvRanked    == {j \in DOMAIN base.raw : ~IsNaN(base.pct_mean[j])}

(* C9: on either axis the overall grade of an IP is the quintile grade of  *)
(* the mean, over the tracked metrics it has a value of, of its cross-IP   *)
(* percentile ranks, all computed from the raw values of the metrics and   *)
(* not from the per-metric grades.                                         *)
C9_OverallFromMeanPercentile ==
    base.axis # "" =>
        \A i \in DOMAIN base.raw :
            /\ base.pct_mean[i] = MeanPctRef(i)
            /\ base.overall[i] =
                 IF IsNaN(base.pct_mean[i]) THEN NaNGrade
                 ELSE AxisLabels(base.axis)[
                        BinOf(2 * Cardinality(OvBetter(i)) + Cardinality(OvEqual(i)) + 1,
                              2 * Cardinality(OvRanked))]

\* two IPs with the same grade on every metric and different overall grades
C9_Witness ==
    /\ base.axis = "abs"
    /\ \E a \in DOMAIN base.raw, b \in DOMAIN base.raw :
          /\ \A m \in DOMAIN METRICS : base.grade[m][a] = base.grade[m][b]
          /\ base.overall[a] # base.overall[b]
          /\ base.overall[a] # NaNGrade /\ base.overall[b] # NaNGrade

-----------------------------------------------------------------------------
(* Demographic comparison of render_demographic.  A frame returned by      *)
(* get_avg_demo_pop_by_episode has one row per episode, by ascending       *)
(* episode: [ep, cells], ep the "회차" label and cells the values of the   *)
(* demographic columns.  Two of the twelve columns of DEMO_COLS_ORDER are  *)
(* modelled ("10M" is "10대남성", "10F" is "10대여성"); every column goes   *)
(* through the same steps.                                                 *)

DEMO_COLS_ORDER == <<"10M", "10F">>

\* the value shown as "INF"
INF_SENTINEL == 999

\* f"{int(n):02d}화" for n < 100: the two digits
_fmt_ep(n) == <<n \div 10, n % 10>>

\* mutant: the two outcomes of a zero comparison value are exchanged
Mut_IndexValue_swapped(base_value, comp_value) ==
    IF comp_value[1] # 0
    THEN RMul(RDiv(RSub(base_value, comp_value), comp_value), RInt(100))
    ELSE IF base_value[1] = 0 THEN RInt(INF_SENTINEL) ELSE RInt(0)

\* np.where(comp != 0, (base - comp) / comp * 100, np.where(base == 0, 0.0, 999))
IndexValue(base_value, comp_value) ==
    IF comp_value[1] # 0
    THEN RMul(RDiv(RSub(base_value, comp_value), comp_value), RInt(100))
    ELSE IF base_value[1] = 0 THEN RInt(0) ELSE RInt(INF_SENTINEL)

\* pd.to_numeric(...).fillna(0.0)
FillNa0(v) == IF IsNaN(v) THEN RInt(0) ELSE v

\* df_comp when the comparison frame is empty: the episodes of df_base, 0.0
ZeroComp(df_base) ==
    [i \in DOMAIN df_base |->
        [ep |-> df_base[i].ep, cells |-> [c \in DOMAIN DEMO_COLS_ORDER |-> RInt(0)]]]

\* pd.merge(df_base, df_comp, on="회차", how="left"): each base row with each
\* comparison row of its episode, or with missing cells when there is none
RECURSIVE MergeLeft(_, _)
MergeLeft(df_base, df_comp) ==
    IF df_base = <<>> THEN <<>>
    ELSE LET l       == Head(df_base)
             matches == SelectSeq(df_comp, LAMBDA r : r.ep = l.ep)
             joined  == IF matches = <<>>
                        THEN <<[ep |-> l.ep, cells_base |-> l.cells,
                                cells_comp |-> [c \in DOMAIN DEMO_COLS_ORDER |-> NaN]]>>
                        ELSE [j \in DOMAIN matches |->
                                [ep |-> l.ep, cells_base |-> l.cells,
                                 cells_comp |-> matches[j].cells]]
         IN  joined \o MergeLeft(Tail(df_base), df_comp)

\* df_index: per row and column the index and the two values it compares
DemoIndex(df_base, df_comp) ==
    LET comp      == IF df_comp = <<>> THEN ZeroComp(df_base) ELSE df_comp
        df_merged == MergeLeft(df_base, comp)
    IN  [i \in DOMAIN df_merged |->
            [ep    |-> df_merged[i].ep,
             base  |-> [c \in DOMAIN DEMO_COLS_ORDER |-> FillNa0(df_merged[i].cells_base[c])],
             comp  |-> [c \in DOMAIN DEMO_COLS_ORDER |-> FillNa0(df_merged[i].cells_comp[c])],
             index |-> [c \in DOMAIN DEMO_COLS_ORDER |->
                          IndexValue(FillNa0(df_merged[i].cells_base[c]),
                                     FillNa0(df_merged[i].cells_comp[c]))]]]

-----------------------------------------------------------------------------
(* render_heatmap: the colour range and the cell texts of df_index.  The   *)
(* text of a cell is [kind, n]: "INF", or "pct" with the number the format *)
(* "+.0f" prints, or "" for a missing cell.                                *)

RAbs(q) == <<Abs(q[1]), q[2]>>
RNeg(q) == <<-q[1], q[2]>>
RMax2(p, q) == IF RLt(p, q) THEN q ELSE p

\* mutant: the sentinel stays in the values the range is taken from
Mut_ReplaceSentinel_keep(v) == v

\* replace(999, np.nan) of one cell
ReplaceSentinel(v) == IF v = RInt(INF_SENTINEL) THEN NaN ELSE v

\* the integer nearest to q, the even one of two equally near
RoundHalfEven(q) ==
    LET fl == q[1] \div q[2]
        r2 == 2 * (q[1] % q[2])
    IN  IF r2 < q[2] THEN fl
        ELSE IF r2 > q[2] THEN fl + 1
        ELSE IF fl % 2 = 0 THEN fl ELSE fl + 1

\* "INF" if x == 999 else (f"{x:+.0f}%" if pd.notna(x) else "")
CellText(x) ==
    IF x = RInt(INF_SENTINEL) THEN [kind |-> "INF", n |-> 0]
    ELSE IF ~IsNaN(x) THEN [kind |-> "pct", n |-> RoundHalfEven(x)]
    ELSE [kind |-> "", n |-> 0]

render_heatmap(df_plot) ==
    IF df_plot = <<>> THEN NoHeatmap
    ELSE LET valid_values ==
                 {v \in {ReplaceSentinel(df_plot[i].index[c]) :
                            i \in DOMAIN df_plot, c \in DOMAIN DEMO_COLS_ORDER} : ~IsNaN(v)}
             v_min == IF valid_values = {} THEN RInt(-10)
                      ELSE CHOOSE x \in valid_values : \A y \in valid_values : RLe(x, y)
             v_max == IF valid_values = {} THEN RInt(10)
                      ELSE CHOOSE x \in valid_values : \A y \in valid_values : RLe(y, x)
             abs_max == RMax2(RMax2(RAbs(v_min), RAbs(v_max)), RInt(10))
         IN  [shown |-> TRUE,
              range |-> <<RNeg(abs_max), abs_max>>,
              text  |-> [i \in DOMAIN df_plot |->
                           [c \in DOMAIN DEMO_COLS_ORDER |-> CellText(df_plot[i].index[c])]]]

-----------------------------------------------------------------------------
(* The comparison specification: a base and a comparison frame over the    *)
(* episodes 1..MaxEp, each cell one of DemoValues, are compared once.      *)

MaxEp == 2

DemoValues == <<RInt(0), RInt(50), RInt(100)>>

NDemoRows == Len(DemoValues) * Len(DemoValues)

DemoCellsAt(k) == <<DemoValues[((k - 1) % Len(DemoValues)) + 1],
                    DemoValues[((k - 1) \div Len(DemoValues)) + 1]>>

\* the frame with, for each episode e with f[e] # 0, the f[e]-th row
DemoFrame(f) ==
    LET eps == SortedSeq({e \in DOMAIN f : f[e] # 0})
    IN  [i \in DOMAIN eps |-> [ep |-> _fmt_ep(eps[i]), cells |-> DemoCellsAt(f[eps[i]])]]

InitDemo ==
    /\ \E f \in [1..MaxEp -> 0..NDemoRows], g \in [1..MaxEp -> 0..NDemoRows] :
          demo = [NoDemo EXCEPT !.df_base = DemoFrame(f), !.df_comp = DemoFrame(g)]
    /\ df = <<>>
    /\ ret = NoCall
    /\ series = <<>>
    /\ grades = NoGrades
    /\ base = NoBase
    /\ heatmap = NoHeatmap
    /\ view = NoView
    /\ sheet = <<>>
    /\ cache = NoCache

\* the body of render_demographic once both frames are built
Compare_demo ==
    /\ ~demo.done
    /\ demo' = [demo EXCEPT !.done = TRUE,
                            !.df_index = IF demo.df_base = <<>> THEN <<>>
                                         ELSE DemoIndex(demo.df_base, demo.df_comp)]
    /\ heatmap' = render_heatmap(demo'.df_index)
    /\ UNCHANGED <<df, ret, series, grades, base, view, sheet, cache>>

NextDemo == Compare_demo

SpecDemo == InitDemo /\ [][NextDemo]_vars

\* the comparison value of column c for the episode of row i of df_base: 0
\* when df_comp has no row of that episode
CompCell(i, c) ==
    LET rows == {j \in DOMAIN demo.df_comp : demo.df_comp[j].ep = demo.df_base[i].ep}
    IN  IF rows = {} THEN RInt(0) ELSE demo.df_comp[CHOOSE j \in rows : TRUE].cells[c]

(* C10: for non-negative base and comparison values the index of a cell is *)
(* (base - comp) / comp * 100 when comp # 0, 0 when both are 0, and the    *)
(* sentinel 999 when comp = 0 and base # 0, a missing comparison cell      *)
(* counting as 0; so index(50,100) = -50, index(100,0) = 999 and           *)
(* index(0,0) = 0.                                                         *)
C10_IndexFormula ==
    demo.done =>
        /\ Len(demo.df_index) = Len(demo.df_base)
        /\ \A i \in DOMAIN demo.df_index, c \in DOMAIN DEMO_COLS_ORDER :
              LET b   == demo.df_base[i].cells[c]
                  k   == CompCell(i, c)
                  idx == demo.df_index[i].index[c]
              IN  /\ demo.df_index[i].ep = demo.df_base[i].ep
                  /\ k[1] # 0 => idx[1] * k[1] = 100 * (b[1] - k[1]) * idx[2]
                  /\ (k[1] = 0 /\ b[1] = 0) => idx = RInt(0)
                  /\ (k[1] = 0 /\ b[1] # 0) => idx = RInt(999)
                  /\ (b = RInt(50) /\ k = RInt(100)) => idx = RInt(-50)
                  /\ (b = RInt(100) /\ k = RInt(0)) => idx = RInt(999)

\* one comparison showing -50, the sentinel and 0, with an episode of the
\* base frame that the comparison frame lacks
C10_Witness ==
    /\ demo.done /\ demo.df_comp # <<>>
    /\ \E i \in DOMAIN demo.df_index :
          \A j \in DOMAIN demo.df_comp : demo.df_comp[j].ep # demo.df_index[i].ep
    /\ \E i \in DOMAIN demo.df_index, c \in DOMAIN DEMO_COLS_ORDER :
          demo.df_index[i].index[c] = RInt(-50)
    /\ \E i \in DOMAIN demo.df_index, c \in DOMAIN DEMO_COLS_ORDER :
          demo.df_index[i].index[c] = RInt(INF_SENTINEL)
    /\ \E i \in DOMAIN demo.df_index, c \in DOMAIN DEMO_COLS_ORDER :
          demo.df_index[i].index[c] = RInt(0) /\ demo.df_index[i].base[c] = RInt(0)

\* the cells of df_index that do not hold the sentinel
PlainCells ==
    {v \in {demo.df_index[i].index[c] :
               i \in DOMAIN demo.df_index, c \in DOMAIN DEMO_COLS_ORDER} : v # RInt(999)}

(* C11: the colour range of the heatmap is [-m, m], m the largest of 10    *)
(* and the absolute values of the cells that do not hold the sentinel 999  *)
(* ([-10, 10] when there is no such cell); a cell is labelled "INF"        *)
(* exactly when it holds the sentinel.                                     *)
C11_RangeIgnoresSentinel ==
    heatmap.shown =>
        /\ heatmap.range[1] = RNeg(heatmap.range[2])
        /\ RLe(RInt(10), heatmap.range[2])
        /\ \A v \in PlainCells : RLe(RAbs(v), heatmap.range[2])
        /\ \/ heatmap.range[2] = RInt(10)
           \/ \E v \in PlainCells : RAbs(v) = heatmap.range[2]
        /\ \A i \in DOMAIN demo.df_index, c \in DOMAIN DEMO_COLS_ORDER :
              /\ heatmap.text[i][c].kind = "INF" <=> demo.df_index[i].index[c] = RInt(999)
              /\ demo.df_index[i].index[c] # RInt(999) => heatmap.text[i][c].kind = "pct"

\* a sentinel cell beside cells of -50 and 0: the range is [-50, 50]
C11_Witness ==
    /\ heatmap.shown
    /\ heatmap.range = <<RInt(-50), RInt(50)>>
    /\ \E i \in DOMAIN demo.df_index, c \in DOMAIN DEMO_COLS_ORDER :
          demo.df_index[i].index[c] = RInt(999) /\ heatmap.text[i][c].kind = "INF"
    /\ \E i \in DOMAIN demo.df_index, c \in DOMAIN DEMO_COLS_ORDER :
          heatmap.text[i][c] = [kind |-> "pct", n |-> -50]

-----------------------------------------------------------------------------
(* Cutoff sweep of render_growth_score: the cutoffs _Ns of the selected IP *)
(* and, per cutoff, the overall grades of that IP (evo_rows).              *)

\* sorted(df_all["IP"].dropna().unique()); IPNames is in sorted order
Ips(df_all) == SelectSeq(IPNames, LAMBDA ip : \E i \in DOMAIN df_all : df_all[i].IP = ip)

\* mutant: only the cutoffs strictly below the last valid episode
Mut_Ns_strict(df_all, selected_ip) ==
    LET _ip_all    == RowsOfIP(df_all, selected_ip)
        _valid_eps == {_ip_all[i].ep : i \in {j \in DOMAIN _ip_all : ~IsZero(_ip_all[j].value)}}
                         \ {NaNEp}
    IN  IF _valid_eps # {}
        THEN LET _max_ep == CHOOSE e \in _valid_eps : \A x \in _valid_eps : x <= e
             IN  SelectSeq(EP_CHOICES, LAMBDA n : n < _max_ep)
        ELSE <<CHOOSE n \in {EP_CHOICES[k] : k \in DOMAIN EP_CHOICES} :
                  \A k \in DOMAIN EP_CHOICES : n <= EP_CHOICES[k]>>

\* the cutoffs to evaluate: those up to the last episode of the IP with a
\* non-zero value, or the smallest cutoff when it has no such episode
_Ns(df_all, selected_ip) ==
    LET _ip_all    == RowsOfIP(df_all, selected_ip)
        _valid_eps == {_ip_all[i].ep : i \in {j \in DOMAIN _ip_all : ~IsZero(_ip_all[j].value)}}
                         \ {NaNEp}
    IN  IF _valid_eps # {}
        THEN LET _max_ep == CHOOSE e \in _valid_eps : \A x \in _valid_eps : x <= e
             IN  SelectSeq(EP_CHOICES, LAMBDA n : n <= _max_ep)
        ELSE <<CHOOSE n \in {EP_CHOICES[k] : k \in DOMAIN EP_CHOICES} :
                  \A k \in DOMAIN EP_CHOICES : n <= EP_CHOICES[k]>>

\* mutant: the absolute value kept from the first cutoff, whatever n
Mut_abs_value_n_first(ip_df, metric, media, n) ==
    LET sub == _filter_to_ep(ip_df, EP_CHOICES[1])
    IN  IF metric \in {"H_rating", "T_rating"}
        THEN mean_of_ip_episode_mean(sub, metric, MediaNone)
        ELSE IF metric = "viewers" /\ media = MediaList({"LIVE"})
        THEN mean_of_ip_episode_sum(sub, "viewers", MediaList({"TVING LIVE"}))
        ELSE IF metric = "viewers" /\ media = MediaList({"VOD"})
        THEN mean_of_ip_episode_sum(sub, "viewers", MediaList({"TVING VOD"}))
        ELSE NaN

_abs_value_n(ip_df, metric, media, n) ==
    LET sub == _filter_to_ep(ip_df, n)
    IN  IF metric \in {"H_rating", "T_rating"}
        THEN mean_of_ip_episode_mean(sub, metric, MediaNone)
        ELSE IF metric = "viewers" /\ media = MediaList({"LIVE"})
        THEN mean_of_ip_episode_sum(sub, "viewers", MediaList({"TVING LIVE"}))
        ELSE IF metric = "viewers" /\ media = MediaList({"VOD"})
        THEN mean_of_ip_episode_sum(sub, "viewers", MediaList({"TVING VOD"}))
        ELSE NaN

_slope_n(ip_df, metric, media, n) ==
    LET sub0 == SelectSeq(ip_df, LAMBDA r : r.metric = metric)
        sub1 == IF media = MediaList({"LIVE"})
                THEN SelectSeq(sub0, LAMBDA r : r.media = "TVING LIVE")
                ELSE IF media = MediaList({"VOD"})
                THEN SelectSeq(sub0, LAMBDA r : r.media = "TVING VOD")
                ELSE sub0
        sub  == DropNaEp(DropZeroValue(_filter_to_ep(sub1, n)))
    IN  IF sub = <<>> THEN NaN
        ELSE LET s == IF metric \in {"H_rating", "T_rating"}
                      THEN GroupByEpMean(sub) ELSE GroupByEpSum(sub)
                 x == SortedSeq(DOMAIN s)
             IN  IF Len(x) < 2 THEN NaN
                 ELSE Polyfit1Slope([i \in 1..Len(x) |-> <<RInt(x[i]), s[x[i]]>>])

\* tmp for cutoff n: one row per IP of the absolute values, or of the slopes
TmpRows(df_all, n, axis) ==
    LET ips == Ips(df_all)
    IN  [k \in DOMAIN ips |->
            [m \in DOMAIN METRICS |->
                IF axis = "abs"
                THEN _abs_value_n(RowsOfIP(df_all, ips[k]), METRICS[m][1], METRICS[m][2], n)
                ELSE _slope_n(RowsOfIP(df_all, ips[k]), METRICS[m][1], METRICS[m][2], n)]]

\* the position of an IP in ips
IpIndex(df_all, ip) == CHOOSE k \in DOMAIN Ips(df_all) : Ips(df_all)[k] = ip

\* the rows appended to evo_rows for the cutoffs Ns, in their order
RECURSIVE EvoRows(_, _, _)
EvoRows(df_all, selected_ip, Ns) ==
    IF Ns = <<>> THEN <<>>
    ELSE LET k == IpIndex(df_all, selected_ip)
             Row(ag, sg) ==
                 IF ag[k] # NaNGrade
                 THEN <<[N |-> Head(Ns), ABS_GRADE |-> ag[k],
                         SLOPE_GRADE |-> IF sg[k] # NaNGrade THEN sg[k] ELSE ""]>>
                 ELSE <<>>
             row == CHOOSE r \in
                      {Row(ag, sg) :
                         ag \in {GradeBase(TmpRows(df_all, Head(Ns), "abs"), "abs").overall},
                         sg \in {GradeBase(TmpRows(df_all, Head(Ns), "slope"), "slope").overall}} :
                      TRUE
         IN  row \o EvoRows(df_all, selected_ip, Tail(Ns))

-----------------------------------------------------------------------------
(* The sweep specification: a table of at most MaxSweepRows rows of two    *)
(* IPs with episodes up to 4, and a selected IP of the table.              *)

MaxSweepRows == 3

SweepMetricMedia == <<(<<"T_rating", "TV">>), (<<"viewers", "TVING LIVE">>)>>

SweepEpLabels == <<(<<"E", "P">>), (<<"1">>), (<<"2">>), (<<"4">>)>>

SweepValueCells == <<(<<"0">>), (<<"2">>)>>

NSweepRows ==
    Len(IPNames) * Len(SweepMetricMedia) * Len(SweepEpLabels) * Len(SweepValueCells)

SweepRowAt(k) ==
    LET a == k - 1
        i == a % Len(IPNames)
        b == a \div Len(IPNames)
        m == b % Len(SweepMetricMedia)
        c == b \div Len(SweepMetricMedia)
        l == c % Len(SweepEpLabels)
        v == c \div Len(SweepEpLabels)
    IN  [IP |-> IPNames[i + 1], metric |-> SweepMetricMedia[m + 1][1],
         media |-> SweepMetricMedia[m + 1][2], label |-> SweepEpLabels[l + 1],
         value |-> SweepValueCells[v + 1]]

InitSweep ==
    /\ \E m \in 1..MaxSweepRows : \E s \in [1..m -> 1..NSweepRows] :
          NonDecreasing(s) /\ df = _df_basic_clean([i \in DOMAIN s |-> SweepRowAt(s[i])])
    /\ ret = NoCall
    /\ series = <<>>
    /\ grades = NoGrades
    /\ base = NoBase
    /\ demo = NoDemo
    /\ heatmap = NoHeatmap
    /\ view = NoView
    /\ sheet = <<>>
    /\ cache = NoCache

\* the grade-evolution part of render_growth_score for one selected IP
Sweep_cutoffs ==
    \E k \in DOMAIN Ips(df) : \E Ns \in {_Ns(df, Ips(df)[k])} :
        /\ view.name = ""
        /\ view' = [name |-> "growth_score", selected_ip |-> Ips(df)[k], Ns |-> Ns,
                    evo_rows |-> EvoRows(df, Ips(df)[k], Ns)]
        /\ UNCHANGED <<df, ret, series, grades, base, demo, heatmap, sheet, cache>>

NextSweep == Sweep_cutoffs

SpecSweep == InitSweep /\ [][NextSweep]_vars

\* the episode numbers at which the selected IP has a non-zero value
ValidEpsOfSelected ==
    {df[i].ep : i \in {j \in DOMAIN df : df[j].IP = view.selected_ip
                                          /\ df[j].ep # NaNEp /\ ~IsZero(df[j].value)}}

(* C12 as stated: the cutoffs evaluated are exactly the members of         *)
(* EP_CHOICES, ascending, that are at most the largest episode number at   *)
(* which the selected IP has a non-zero value; none above it, whatever the *)
(* table.                                                                  *)
C12_CutoffsUpToLastEpisode ==
    view.name = "growth_score" =>
        view.Ns = SelectSeq(EP_CHOICES, LAMBDA n : \E e \in ValidEpsOfSelected : n <= e)

(* C12, amended: as above when the selected IP has an episode number with  *)
(* a non-zero value; when it has none, the single smallest cutoff (2) is   *)
(* evaluated.  A row of evo_rows is made only for an evaluated cutoff.     *)
C12_CutoffsOrSmallest ==
    view.name = "growth_score" =>
        /\ ValidEpsOfSelected # {} =>
              view.Ns = SelectSeq(EP_CHOICES, LAMBDA n : \E e \in ValidEpsOfSelected : n <= e)
        /\ ValidEpsOfSelected = {} => view.Ns = <<2>>
        /\ \A j \in DOMAIN view.evo_rows : \E c \in DOMAIN view.Ns :
              view.evo_rows[j].N = view.Ns[c]

\* an IP valued at episodes up to 4: both cutoffs 2 and 4 are evaluated and
\* graded
C12_Witness ==
    /\ view.name = "growth_score"
    /\ 4 \in ValidEpsOfSelected
    /\ view.Ns = <<2, 4>>
    /\ Len(view.evo_rows) = 2

-----------------------------------------------------------------------------
(* Comparison groups.  Four views narrow the table to the IPs that share   *)
(* the programming slot ("편성") and/or the air year of a base IP.  Here a *)
(* row is [IP, prog, year]: prog is the slot, "" for an empty cell; year   *)
(* is the year of the date column, NaT when the date did not parse.  The   *)
(* criteria "동일 편성" and "방영 연도" are "slot" and "year".             *)

NaT == 0

\* the slots in sorted order
ProgNames == <<"", "Mon", "Wed">>

GroupYears == <<2023, 2024>>

\* rows["편성"].dropna().mode().iloc[0]: the most frequent slot, the first in
\* sorted order among equally frequent ones ("" when there is no row)
ModeProg(rows) ==
    LET Count(v) == Cardinality({i \in DOMAIN rows : rows[i].prog = v})
        best == CHOOSE k \in DOMAIN ProgNames :
                    /\ \A j \in DOMAIN ProgNames : Count(ProgNames[j]) <= Count(ProgNames[k])
                    /\ \A j \in 1..(k - 1) : Count(ProgNames[j]) < Count(ProgNames[k])
    IN  IF rows = <<>> THEN "" ELSE ProgNames[best]

\* rows[date_col].dropna().dt.year.mode().iloc[0], or None (NaT) without a date
ModeYear(rows) ==
    LET Count(y) == Cardinality({i \in DOMAIN rows : rows[i].year = y})
        dated == {i \in DOMAIN rows : rows[i].year # NaT}
    IN  IF dated = {} THEN NaT
        ELSE CHOOSE y \in {rows[i].year : i \in dated} :
                \A i \in dated :
                    \/ Count(rows[i].year) < Count(y)
                    \/ (Count(rows[i].year) = Count(y) /\ y <= rows[i].year)

\* the two "if criterion selected" blocks shared by the views: the narrowed
\* table, the names of the criteria applied and the criteria warned about
ApplyCriteria(df_all, ip, wantSlot, wantYear) ==
    LET info      == SelectSeq(df_all, LAMBDA r : r.IP = ip)
        prog      == ModeProg(info)
        year      == ModeYear(info)
        afterSlot == IF wantSlot /\ prog # ""
                     THEN SelectSeq(df_all, LAMBDA r : r.prog = prog) ELSE df_all
        afterYear == IF wantYear /\ year # NaT
                     THEN SelectSeq(afterSlot, LAMBDA r : r.year = year) ELSE afterSlot
    IN  [group   |-> afterYear,
         parts   |-> (IF wantSlot /\ prog # "" THEN <<"slot">> ELSE <<>>)
                       \o (IF wantYear /\ year # NaT THEN <<"year">> ELSE <<>>),
         warned  |-> (IF wantSlot /\ prog = "" THEN {"slot"} ELSE {})
                       \cup (IF wantYear /\ year = NaT THEN {"year"} ELSE {})]

\* render_ip_detail: with no criterion applied the whole table is the group
GroupOfIpDetail(df_all, ip, criteria) ==
    LET a == ApplyCriteria(df_all, ip, "slot" \in criteria, "year" \in criteria)
    IN  IF a.parts = <<>>
        THEN [group |-> df_all, parts |-> <<"all">>, warned |-> a.warned, aborted |-> FALSE]
        ELSE [group |-> a.group, parts |-> a.parts, warned |-> a.warned, aborted |-> FALSE]

\* render_demographic, mode "IP vs 그룹": st.error and return when criteria
\* were selected and none could be applied
GroupOfDemographic(df_all, ip, criteria) ==
    LET a == ApplyCriteria(df_all, ip, "slot" \in criteria, "year" \in criteria)
    IN  IF criteria = {}
        THEN [group |-> df_all, parts |-> <<"all">>, warned |-> {}, aborted |-> FALSE]
        ELSE IF a.parts = <<>>
        THEN [group |-> <<>>, parts |-> <<>>, warned |-> a.warned, aborted |-> TRUE]
        ELSE [group |-> a.group, parts |-> a.parts, warned |-> a.warned, aborted |-> FALSE]

\* render_ip_vs_group_comparison: st.error and return when no criterion
\* could be applied
GroupOfIpVsGroup(df_all, ip, criteria) ==
    LET a == ApplyCriteria(df_all, ip, "slot" \in criteria, "year" \in criteria)
    IN  IF a.parts = <<>>
        THEN [group |-> <<>>, parts |-> <<>>, warned |-> a.warned, aborted |-> TRUE]
        ELSE [group |-> a.group, parts |-> a.parts, warned |-> a.warned, aborted |-> FALSE]

\* the radio options of the episode comparison, word by word: "전체 IP",
\* "동일 편성", "방영 연도", "동일 편성 & 연도"
GroupOptions ==
    <<(<<"all", "IP">>), (<<"same", "slot">>), (<<"air", "year">>),
      (<<"same", "slot", "&", "year">>)>>

\* needle in hay, for sequences of words
Contains(hay, needle) ==
    \E k \in 0..(Len(hay) - Len(needle)) :
        \A j \in DOMAIN needle : hay[k + j] = needle[j]

\* render_episode_comparison: the criteria are read off the option text
GroupOfEpisode(df_all, ip, comparison_group) ==
    IF comparison_group = GroupOptions[1]
    THEN [group |-> df_all, parts |-> <<>>, warned |-> {}, aborted |-> FALSE]
    ELSE LET a == ApplyCriteria(df_all, ip, Contains(comparison_group, <<"same", "slot">>),
                                Contains(comparison_group, <<"air", "year">>))
         IN  [group |-> a.group, parts |-> a.parts, warned |-> a.warned,
              aborted |-> a.group = <<>>
                            \/ ~(\E i \in DOMAIN a.group : a.group[i].IP = ip)]

-----------------------------------------------------------------------------
(* The comparison-group specification: a table of at most MaxGroupRows     *)
(* rows, a base IP of the table, selected criteria, one view.              *)

MaxGroupRows == 3

NGroupRows == Len(IPNames) * Len(ProgNames) * (Len(GroupYears) + 1)

GroupRowAt(k) ==
    LET a == k - 1
        i == a % Len(IPNames)
        b == a \div Len(IPNames)
        g == b % Len(ProgNames)
        y == b \div Len(ProgNames)
    IN  [IP |-> IPNames[i + 1], prog |-> ProgNames[g + 1],
         year |-> IF y = 0 THEN NaT ELSE GroupYears[y]]

InitGroup ==
    /\ \E m \in 1..MaxGroupRows : \E s \in [1..m -> 1..NGroupRows] :
          NonDecreasing(s) /\ df = [i \in DOMAIN s |-> GroupRowAt(s[i])]
    /\ ret = NoCall
    /\ series = <<>>
    /\ grades = NoGrades
    /\ base = NoBase
    /\ demo = NoDemo
    /\ heatmap = NoHeatmap
    /\ view = NoView
    /\ sheet = <<>>
    /\ cache = NoCache

Render_ip_detail_group ==
    \E k \in DOMAIN Ips(df), criteria \in SUBSET {"slot", "year"} :
        /\ view.name = ""
        /\ view' = [name |-> "ip_detail", ip |-> Ips(df)[k], criteria |-> criteria,
                    out |-> GroupOfIpDetail(df, Ips(df)[k], criteria)]
        /\ UNCHANGED <<df, ret, series, grades, base, demo, heatmap, sheet, cache>>

Render_demographic_group ==
    \E k \in DOMAIN Ips(df), criteria \in SUBSET {"slot", "year"} :
        /\ view.name = ""
        /\ view' = [name |-> "demographic", ip |-> Ips(df)[k], criteria |-> criteria,
                    out |-> GroupOfDemographic(df, Ips(df)[k], criteria)]
        /\ UNCHANGED <<df, ret, series, grades, base, demo, heatmap, sheet, cache>>

\* render_comparison calls it only with at least one criterion selected
Render_ip_vs_group ==
    \E k \in DOMAIN Ips(df), criteria \in (SUBSET {"slot", "year"}) \ {{}} :
        /\ view.name = ""
        /\ view' = [name |-> "ip_vs_group", ip |-> Ips(df)[k], criteria |-> criteria,
                    out |-> GroupOfIpVsGroup(df, Ips(df)[k], criteria)]
        /\ UNCHANGED <<df, ret, series, grades, base, demo, heatmap, sheet, cache>>

\* the criteria an option stands for
OptionCriteria(o) ==
    CASE o = 1 -> {} [] o = 2 -> {"slot"} [] o = 3 -> {"year"} [] o = 4 -> {"slot", "year"}

Render_episode_group ==
    \E k \in DOMAIN Ips(df), o \in DOMAIN GroupOptions :
        /\ view.name = ""
        /\ view' = [name |-> "episode", ip |-> Ips(df)[k], criteria |-> OptionCriteria(o),
                    out |-> GroupOfEpisode(df, Ips(df)[k], GroupOptions[o])]
        /\ UNCHANGED <<df, ret, series, grades, base, demo, heatmap, sheet, cache>>

NextGroup ==
    \/ Render_ip_detail_group
    \/ Render_demographic_group
    \/ Render_ip_vs_group
    \/ Render_episode_group

SpecGroup == InitGroup /\ [][NextGroup]_vars

\* the selected criteria the base IP has a value for
Available ==
    {c \in view.criteria :
        \/ c = "slot" /\ ModeProg(SelectSeq(df, LAMBDA r : r.IP = view.ip)) # ""
        \/ c = "year" /\ ModeYear(SelectSeq(df, LAMBDA r : r.IP = view.ip)) # NaT}

\* the rows that meet every available selected criterion
Intersection ==
    SelectSeq(df, LAMBDA r :
        /\ "slot" \in Available => r.prog = ModeProg(SelectSeq(df, LAMBDA x : x.IP = view.ip))
        /\ "year" \in Available => r.year = ModeYear(SelectSeq(df, LAMBDA x : x.IP = view.ip)))

(* C13: in every view that builds a comparison group, when a selected      *)
(* criterion has no value for the base IP it is skipped with a warning,    *)
(* the remaining selected criteria are applied as an intersection, and the *)
(* comparison is produced, never aborted.                                  *)
C13_UnavailableCriterionSkipped ==
    (view.name \in {"ip_detail", "demographic", "ip_vs_group", "episode"}
       /\ Available # view.criteria) =>
        /\ view.out.warned = view.criteria \ Available
        /\ ~view.out.aborted
        /\ view.out.group = Intersection

-----------------------------------------------------------------------------
(* Loading.  The worksheet is what get_all_values returns: a sequence of   *)
(* rows of string cells, the first row being the header.  A frame is       *)
(* [columns, rows], each row a function from the column names to cells.    *)
(* The columns are "IP", "value", "ep_label" (회차) and the derived        *)
(* "ep_numeric" (회차_numeric).                                            *)

EmptyFrame == [columns |-> <<>>, rows |-> <<>>]

ColumnSet(frame) == {frame.columns[i] : i \in DOMAIN frame.columns}

\* the outcome of _load_df_from_ws: a frame, or the ValueError of an empty
\* header row
_load_df_from_ws(values) ==
    IF values = <<>> THEN [raised |-> FALSE, frame |-> EmptyFrame]
    ELSE IF values[1] = <<>> THEN [raised |-> TRUE, frame |-> EmptyFrame]
    ELSE [raised |-> FALSE,
          frame  |-> [columns |-> values[1],
                      rows |-> [i \in 1..(Len(values) - 1) |->
                                  [c \in {values[1][j] : j \in DOMAIN values[1]} |->
                                      values[i + 1][CHOOSE j \in DOMAIN values[1] : values[1][j] = c]]]]]

\* _df_basic_clean on a frame with any set of columns: an empty frame is
\* returned as it is, the value column is made numeric when present, the
\* episode number is derived from the label column or set to pd.NA
BasicCleanFrame(frame) ==
    IF frame.rows = <<>> THEN frame
    ELSE [columns |-> frame.columns \o <<"ep_numeric">>,
          rows |-> [i \in DOMAIN frame.rows |->
                      [c \in ColumnSet(frame) \cup {"ep_numeric"} |->
                          IF c = "ep_numeric"
                          THEN (IF "ep_label" \in ColumnSet(frame)
                                THEN EpisodeNumeric(frame.rows[i]["ep_label"]) ELSE NaNEp)
                          ELSE IF c = "value" THEN CleanValue(frame.rows[i][c])
                          ELSE frame.rows[i][c]]]]

\* the body of load_data: any exception ends in an empty DataFrame
LoadFrame(values) ==
    LET got == _load_df_from_ws(values)
    IN  IF got.raised THEN EmptyFrame ELSE BasicCleanFrame(got.frame)

-----------------------------------------------------------------------------
(* The cleaning specification: a worksheet of one data row whose value or  *)
(* label cell is any string of at most MaxCellLen characters, or the       *)
(* scenario rows, under each header; the table is loaded once.             *)

MaxCellLen == 3

ValueAlphabet == {"1", "0", ",", "%", ".", "-", "a"}

LabelAlphabet == {"1", "2", "0", "E", "-"}

Headers ==
    {<<"IP", "value", "ep_label">>, <<"IP", "ep_label">>, <<"IP", "value">>,
     <<"ep_label", "value", "IP">>}

\* "1,234%", "abc", "" with the labels "12E", "E", "3-40"
ScenarioCells ==
    <<[value |-> <<"1", ",", "2", "3", "4", "%">>, ep_label |-> <<"1", "2", "E">>],
      [value |-> <<"a", "b", "c">>, ep_label |-> <<"E">>],
      [value |-> <<>>, ep_label |-> <<"3", "-", "4", "0">>]>>

Strings(alphabet) == UNION {[1..n -> alphabet] : n \in 0..MaxCellLen}

\* the worksheet row of a header for given cells
SheetRow(header, cells) ==
    [j \in DOMAIN header |->
        CASE header[j] = "IP" -> <<"A">>
          [] header[j] = "value" -> cells.value
          [] header[j] = "ep_label" -> cells.ep_label]

InitClean ==
    /\ \E header \in Headers :
          \/ \E v \in Strings(ValueAlphabet) :
                sheet = <<header, SheetRow(header, [value |-> v, ep_label |-> <<"7">>])>>
          \/ \E l \in Strings(LabelAlphabet) :
                sheet = <<header, SheetRow(header, [value |-> <<"5">>, ep_label |-> l])>>
          \/ sheet = <<header>> \o [i \in DOMAIN ScenarioCells |-> SheetRow(header, ScenarioCells[i])]
    /\ df = EmptyFrame
    /\ ret = NoCall
    /\ series = <<>>
    /\ grades = NoGrades
    /\ base = NoBase
    /\ demo = NoDemo
    /\ heatmap = NoHeatmap
    /\ view = NoView
    /\ cache = NoCache

Clean_sheet ==
    /\ view.name = ""
    /\ df' = LoadFrame(sheet)
    /\ view' = [name |-> "loaded"]
    /\ UNCHANGED <<ret, series, grades, base, demo, heatmap, sheet, cache>>

NextClean == Clean_sheet

SpecClean == InitClean /\ [][NextClean]_vars

\* the raw cell of a column in data row i of the worksheet
RawCell(i, c) == sheet[i + 1][CHOOSE j \in DOMAIN sheet[1] : sheet[1][j] = c]

\* the cell without its "," and "%" characters
Stripped(cell) == SelectSeq(cell, LAMBDA c : c \notin {",", "%"})

\* a non-empty string of digits
IsDigits(s) == s # <<>> /\ \A i \in DOMAIN s : s[i] \in Digits

\* a cell that cannot be a number: empty, or with a character that no number has
Unparseable(s) == s = <<>> \/ \E i \in DOMAIN s : s[i] \notin Digits \cup {".", "-", "+"}

(* C14: after _df_basic_clean every cell of the value column is a number:  *)
(* the digits left once "," and "%" are removed when that is a digit       *)
(* string ("1,234%" is 1234), 0 when the cell does not parse ("abc", the   *)
(* empty cell); no cell is missing.                                        *)
C14_ValueCellsNumeric ==
    (view.name = "loaded" /\ "value" \in ColumnSet(df)) =>
        \A i \in DOMAIN df.rows :
            LET cell == RawCell(i, "value")
                x    == df.rows[i]["value"]
            IN  /\ ~IsNaN(x)
                /\ x[2] > 0
                /\ IsDigits(Stripped(cell)) => x = RInt(DigitsToNat(Stripped(cell)))
                /\ Unparseable(Stripped(cell)) => x = RInt(0)
                /\ cell = <<"1", ",", "2", "3", "4", "%">> => x = RInt(1234)

\* the scenario table is loaded: "1,234%" reads 1234, "abc" and "" read 0
C14_Witness ==
    /\ view.name = "loaded"
    /\ "value" \in ColumnSet(df)
    /\ Len(df.rows) = 3
    /\ df.rows[1]["value"] = RInt(1234)
    /\ RawCell(2, "value") = <<"a", "b", "c">> /\ df.rows[2]["value"] = RInt(0)
    /\ RawCell(3, "value") = <<>> /\ df.rows[3]["value"] = RInt(0)

\* s[a..b] is the first maximal run of digits of s
FirstRun(s, a, b) ==
    /\ a \in DOMAIN s /\ b \in a..Len(s)
    /\ \A k \in 1..(a - 1) : s[k] \notin Digits
    /\ \A k \in a..b : s[k] \in Digits
    /\ b = Len(s) \/ s[b + 1] \notin Digits

(* C16: after _df_basic_clean each row's episode number is the integer of  *)
(* the first maximal run of digits of its episode label, missing when the  *)
(* label has no digit, and missing in every row when the table has no      *)
(* episode-label column.                                                   *)
C16_EpisodeFromFirstDigitRun ==
    view.name = "loaded" =>
        \A i \in DOMAIN df.rows :
            IF "ep_label" \in ColumnSet(df)
            THEN LET label == RawCell(i, "ep_label")
                 IN  /\ (\A k \in DOMAIN label : label[k] \notin Digits)
                            => df.rows[i]["ep_numeric"] = NaNEp
                     /\ \A a \in DOMAIN label : \A b \in a..Len(label) :
                            FirstRun(label, a, b)
                                => df.rows[i]["ep_numeric"] = DigitsToNat(SubSeq(label, a, b))
            ELSE df.rows[i]["ep_numeric"] = NaNEp

\* a label with two digit runs, "3-40", read as 3; a label without digit
\* in the same table
C16_Witness ==
    /\ view.name = "loaded"
    /\ "ep_label" \in ColumnSet(df)
    /\ Len(df.rows) = 3
    /\ RawCell(3, "ep_label") = <<"3", "-", "4", "0">> /\ df.rows[3]["ep_numeric"] = 3
    /\ df.rows[2]["ep_numeric"] = NaNEp
    /\ df.rows[1]["ep_numeric"] = 12

-----------------------------------------------------------------------------
(* Per-IP tables: the series ranked within a group, the episode            *)
(* comparison, the overview performance table and the percentile table.    *)
(* Of their metric columns the model keeps the target rating ("T_rating")  *)
(* and the TVING VOD audience ("viewers" of media "TVING VOD"); the other  *)
(* columns repeat the same two patterns.                                   *)

\* the positions of keys by descending key, missing keys last, equal keys in
\* their order of appearance
RECURSIVE OrderDescIn(_, _)
OrderDescIn(keys, I) ==
    IF I = {} THEN <<>>
    ELSE LET Before(i, j) ==
                 \/ ~IsNaN(keys[i]) /\ IsNaN(keys[j])
                 \/ ~IsNaN(keys[i]) /\ ~IsNaN(keys[j]) /\ RLt(keys[j], keys[i])
                 \/ (IsNaN(keys[i]) <=> IsNaN(keys[j])) /\ ~RLt(keys[i], keys[j])
                      /\ ~RLt(keys[j], keys[i]) /\ i <= j
             m == CHOOSE i \in I : \A j \in I : Before(i, j)
         IN  <<m>> \o OrderDescIn(keys, I \ {m})

\* a set of IP names in sorted order, as groupby and concat leave an index
SortedIPs(S) == SelectSeq(IPNames, LAMBDA ip : ip \in S)

\* _series_ip_metric: one aggregate per IP of base_df, no row left out for
\* its value
_series_ip_metric(base_df, metric_name, mode, media) ==
    LET sub == FilterMetricMedia(base_df, metric_name, media)
    IN  IF sub = <<>> THEN <<>>
        ELSE CASE mode = "mean"        -> GroupByIPMean(GroupByIPEpMean(DropNaEp(sub)))
               [] mode = "sum"         -> GroupByIPSum(sub)
               [] mode = "ep_sum_mean" -> GroupByIPMean(GroupByIPEpSum(DropNaEp(sub)))

\* df["IP"].unique(): the IPs in their order of appearance
RECURSIVE UniqueIPs(_)
UniqueIPs(frame) ==
    IF frame = <<>> THEN <<>>
    ELSE LET front == UniqueIPs(SubSeq(frame, 1, Len(frame) - 1))
             ip    == frame[Len(frame)].IP
         IN  IF \E i \in DOMAIN front : front[i] = ip THEN front ELSE Append(front, ip)

\* filter_data_for_episode_comparison for a numeric episode: the rows of the
\* episode, one mean (ratings) or sum (audience) per IP, 0 for an IP without
\* one, by descending value.  The search by label runs only when no row has
\* the number, and then no label reads as that number either.
filter_data_for_episode_comparison(df_all_filtered, target_episode_num, selected_metric) ==
    LET base_filtered == RowsOfEp(df_all_filtered, target_episode_num)
        filtered ==
            IF selected_metric = "TVING VOD"
            THEN SelectSeq(base_filtered, LAMBDA r : r.metric = "viewers" /\ r.media = "TVING VOD")
            ELSE SelectSeq(base_filtered, LAMBDA r : r.metric = selected_metric)
        per_ip ==
            [ip \in {filtered[i].IP : i \in DOMAIN filtered} |->
                IF selected_metric = "TVING VOD"
                THEN RSum(ColValue(RowsOfIP(filtered, ip)))
                ELSE RMean(ColValue(RowsOfIP(filtered, ip)))]
        all_ips == UniqueIPs(df_all_filtered)
        result  == [i \in DOMAIN all_ips |->
                      [IP |-> all_ips[i],
                       value |-> IF all_ips[i] \in DOMAIN per_ip
                                 THEN FillNa0(per_ip[all_ips[i]]) ELSE RInt(0)]]
        order   == OrderDescIn([i \in DOMAIN result |-> result[i].value], DOMAIN result)
    IN  [i \in DOMAIN order |-> result[order[i]]]

\* Series.mean(), NaN for an empty selection
MeanOrNaN(s) == IF s = <<>> THEN NaN ELSE RMean(s)

\* df_perf of the overview: per IP the mean of its target-rating values and
\* the sum of its TVING VOD values, by descending rating
OverviewPerf(f) ==
    LET ips  == SortedIPs({f[i].IP : i \in DOMAIN f})
        rows == [k \in DOMAIN ips |->
                   [IP |-> ips[k],
                    T_rating |-> MeanOrNaN(ColValue(SelectSeq(f,
                                    LAMBDA r : r.IP = ips[k] /\ r.metric = "T_rating"))),
                    VOD |-> RSum(ColValue(SelectSeq(f,
                                    LAMBDA r : r.IP = ips[k] /\ r.metric = "viewers"
                                                 /\ r.media = "TVING VOD")))]]
        order == OrderDescIn([k \in DOMAIN rows |-> rows[k].T_rating], DOMAIN rows)
    IN  [k \in DOMAIN order |-> rows[order[k]]]

\* kpi_percentiles.fillna(0)
FillPercentile(v) == FillNa0(v)

\* get_kpi_data_for_all_ips: zero values and rows without episode number
\* dropped, one aggregate per IP and metric, rank(pct=True) * 100 down each
\* column, the missing filled with 0.  Of the six columns: the target
\* rating (as the household rating), TVING VOD (as live + quick) and the
\* digital views, "views" for "조회수" (as the mentions)
get_kpi_data_for_all_ips(df_all) ==
    LET frame  == DropNaEp(DropZeroValue(df_all))
        kpi_t  == GroupByIPMean(GroupByIPEpMean(SelectSeq(frame, LAMBDA r : r.metric = "T_rating")))
        kpi_v  == GroupByIPMean(GroupByIPEpSum(SelectSeq(frame,
                      LAMBDA r : r.metric = "viewers" /\ r.media = "TVING VOD")))
        kpi_w  == GroupByIPSum(SelectSeq(frame, LAMBDA r : r.metric = "views"))
        ips    == SortedIPs(DOMAIN kpi_t \cup DOMAIN kpi_v \cup DOMAIN kpi_w)
        col_t  == [k \in DOMAIN ips |-> IF ips[k] \in DOMAIN kpi_t THEN kpi_t[ips[k]] ELSE NaN]
        col_v  == [k \in DOMAIN ips |-> IF ips[k] \in DOMAIN kpi_v THEN kpi_v[ips[k]] ELSE NaN]
        col_w  == [k \in DOMAIN ips |-> IF ips[k] \in DOMAIN kpi_w THEN kpi_w[ips[k]] ELSE NaN]
        Pct(col) == LET r == RankPct(col, TRUE)
                    IN  [k \in DOMAIN col |->
                           FillPercentile(IF k \in DOMAIN r THEN RMul(r[k], RInt(100)) ELSE NaN)]
    IN  [k \in DOMAIN ips |->
            [IP |-> ips[k],
             kpi |-> [T_rating |-> col_t[k], VOD |-> col_v[k], views |-> col_w[k]],
             T_rating |-> Pct(col_t)[k], VOD |-> Pct(col_v)[k], views |-> Pct(col_w)[k]]]

-----------------------------------------------------------------------------
(* The per-IP table specification: a normalized table of at most           *)
(* MaxKpiRows rows, one table computed from it.                            *)

MaxKpiRows == 3

KpiMetricMedia == <<(<<"T_rating", "TV">>), (<<"viewers", "TVING VOD">>)>>

KpiEpLabels == <<(<<"E", "P">>), (<<"1">>), (<<"2">>)>>

KpiValueCells == <<(<<"0">>), (<<"2">>)>>

NKpiRows == Len(IPNames) * Len(KpiMetricMedia) * Len(KpiEpLabels) * Len(KpiValueCells)

KpiRowAt(k) ==
    LET a == k - 1
        i == a % Len(IPNames)
        b == a \div Len(IPNames)
        m == b % Len(KpiMetricMedia)
        c == b \div Len(KpiMetricMedia)
        l == c % Len(KpiEpLabels)
        v == c \div Len(KpiEpLabels)
    IN  [IP |-> IPNames[i + 1], metric |-> KpiMetricMedia[m + 1][1],
         media |-> KpiMetricMedia[m + 1][2], label |-> KpiEpLabels[l + 1],
         value |-> KpiValueCells[v + 1]]

InitKpi ==
    /\ \E m \in 1..MaxKpiRows : \E s \in [1..m -> 1..NKpiRows] :
          NonDecreasing(s) /\ df = _df_basic_clean([i \in DOMAIN s |-> KpiRowAt(s[i])])
    /\ ret = NoCall
    /\ series = <<>>
    /\ grades = NoGrades
    /\ base = NoBase
    /\ demo = NoDemo
    /\ heatmap = NoHeatmap
    /\ view = NoView
    /\ sheet = <<>>
    /\ cache = NoCache

\* the table named by a view record, computed from a frame
TableOf(v, frame) ==
    CASE v.name = "_series_ip_metric" ->
            _series_ip_metric(frame, v.metric, v.mode, MediaNone)
      [] v.name = "filter_data_for_episode_comparison" ->
            filter_data_for_episode_comparison(frame, v.episode, v.metric)
      [] v.name = "df_perf" -> OverviewPerf(frame)
      [] v.name = "get_kpi_data_for_all_ips" -> get_kpi_data_for_all_ips(frame)

Call_series_ip_metric ==
    \E metric \in {"T_rating", "viewers"}, mode \in {"mean", "sum", "ep_sum_mean"} :
        \E v \in {[name |-> "_series_ip_metric", metric |-> metric, mode |-> mode, episode |-> 0]} :
            /\ view.name = ""
            /\ view' = [name |-> v.name, metric |-> v.metric, mode |-> v.mode,
                        episode |-> v.episode, out |-> TableOf(v, df)]
            /\ UNCHANGED <<df, ret, series, grades, base, demo, heatmap, sheet, cache>>

Call_filter_data_for_episode_comparison ==
    \E metric \in {"T_rating", "TVING VOD"}, episode \in {1, 2} :
        \E v \in {[name |-> "filter_data_for_episode_comparison", metric |-> metric,
                   mode |-> "", episode |-> episode]} :
            /\ view.name = ""
            /\ view' = [name |-> v.name, metric |-> v.metric, mode |-> v.mode,
                        episode |-> v.episode, out |-> TableOf(v, df)]
            /\ UNCHANGED <<df, ret, series, grades, base, demo, heatmap, sheet, cache>>

Overview_perf ==
    \E v \in {[name |-> "df_perf", metric |-> "", mode |-> "", episode |-> 0]} :
        /\ view.name = ""
        /\ view' = [name |-> v.name, metric |-> v.metric, mode |-> v.mode,
                    episode |-> v.episode, out |-> TableOf(v, df)]
        /\ UNCHANGED <<df, ret, series, grades, base, demo, heatmap, sheet, cache>>

Call_get_kpi_data_for_all_ips ==
    \E v \in {[name |-> "get_kpi_data_for_all_ips", metric |-> "", mode |-> "", episode |-> 0]} :
        /\ view.name = ""
        /\ view' = [name |-> v.name, metric |-> v.metric, mode |-> v.mode,
                    episode |-> v.episode, out |-> TableOf(v, df)]
        /\ UNCHANGED <<df, ret, series, grades, base, demo, heatmap, sheet, cache>>

NextKpi ==
    \/ Call_series_ip_metric
    \/ Call_filter_data_for_episode_comparison
    \/ Overview_perf
    \/ Call_get_kpi_data_for_all_ips

SpecKpi == InitKpi /\ [][NextKpi]_vars

(* C15: a row whose value normalized to 0 is excluded by every aggregator: *)
(* with or without it the per-IP series, the episode comparison, the       *)
(* overview performance table and the percentile table are the same.       *)
C15_ZeroRowsExcludedEverywhere ==
    view.name \in {"_series_ip_metric", "filter_data_for_episode_comparison",
                   "df_perf", "get_kpi_data_for_all_ips"} =>
        \A i \in DOMAIN df :
            IsZero(df[i].value) => TableOf(view, RemoveAt(df, i)) = view.out

\* the columns of the percentile table
KpiColumn(name) ==
    [k \in DOMAIN view.out |->
        IF name = "T_rating" THEN view.out[k].kpi.T_rating ELSE view.out[k].kpi.VOD]

(* C17: every percentile of the table of get_kpi_data_for_all_ips is the   *)
(* average-tie rank of the IP's aggregate over the number of ranked IPs,   *)
(* times 100: a value in (0,100], never 0.                                 *)
C17_PercentileInUnitInterval ==
    view.name = "get_kpi_data_for_all_ips" =>
        \A k \in DOMAIN view.out :
            /\ RLt(RInt(0), view.out[k].T_rating) /\ RLe(view.out[k].T_rating, RInt(100))
            /\ RLt(RInt(0), view.out[k].VOD) /\ RLe(view.out[k].VOD, RInt(100))
            /\ view.out[k].T_rating = RMul(RankPct(KpiColumn("T_rating"), TRUE)[k], RInt(100))
            /\ view.out[k].VOD = RMul(RankPct(KpiColumn("VOD"), TRUE)[k], RInt(100))

-----------------------------------------------------------------------------
(* The KPI cards of the IP-vs-group comparison.  None is NaN.  Of the      *)
(* seven cards the model keeps the target rating and the TVING VOD         *)
(* audience, in their order on the page.                                   *)

CardMetrics == <<"T_rating", "VOD">>

\* get_agg_kpis_for_ip_page4
get_agg_kpis_for_ip_page4(df_ip) ==
    [T_rating |-> mean_of_ip_episode_mean(df_ip, "T_rating", MediaNone),
     VOD      |-> mean_of_ip_episode_sum(df_ip, "viewers", MediaList({"TVING VOD"})),
     views    |-> mean_of_ip_sums(df_ip, "views", MediaNone)]

\* x or 0
OrZero(x) == IF IsNaN(x) \/ IsZero(x) THEN RInt(0) ELSE x

\* calc_delta
calc_delta(ip_val, group_val) ==
    IF IsZero(OrZero(group_val)) THEN NaN
    ELSE RDiv(RSub(OrZero(ip_val), OrZero(group_val)), OrZero(group_val))

\* the delta text of a card: "N/A", or the delta in percent to one decimal
DeltaText(delta) ==
    IF IsNaN(delta) THEN [kind |-> "N/A", n |-> NaN]
    ELSE [kind |-> "pct", n |-> Rat(RoundHalfEven(RMul(delta, RInt(1000))), 10)]

\* formatting None with ":.2f" or ":,.0f" raises TypeError
FormatRaises(x) == IsNaN(x)

\* the cards shown, in order, up to the first one whose value or help text
\* cannot be formatted
RECURSIVE Cards(_, _, _)
Cards(kpis_ip, kpis_group, k) ==
    IF k > Len(CardMetrics) THEN [shown |-> <<>>, raised |-> FALSE]
    ELSE LET m == CardMetrics[k]
         IN  IF FormatRaises(kpis_ip[m]) \/ FormatRaises(kpis_group[m])
             THEN [shown |-> <<>>, raised |-> TRUE]
             ELSE LET rest == Cards(kpis_ip, kpis_group, k + 1)
                  IN  [shown |-> <<[metric |-> m, value |-> kpis_ip[m],
                                    delta |-> DeltaText(calc_delta(kpis_ip[m], kpis_group[m]))]>>
                                   \o rest.shown,
                       raised |-> rest.raised]

\* section 1 of render_ip_vs_group_comparison
IpVsGroupKpis(df_ip, df_group) ==
    LET kpis_ip    == get_agg_kpis_for_ip_page4(df_ip)
        kpis_group == get_agg_kpis_for_ip_page4(df_group)
    IN  [kpis_ip |-> kpis_ip, kpis_group |-> kpis_group,
         delta |-> [m \in {"T_rating", "VOD"} |-> calc_delta(kpis_ip[m], kpis_group[m])],
         cards |-> Cards(kpis_ip, kpis_group, 1)]

\* the IP against a group that is the whole table
Render_ip_vs_group_kpis ==
    \E k \in DOMAIN Ips(df) :
        /\ view.name = ""
        /\ view' = [name |-> "ip_vs_group_kpis", ip |-> Ips(df)[k],
                    out |-> IpVsGroupKpis(RowsOfIP(df, Ips(df)[k]), df)]
        /\ UNCHANGED <<df, ret, series, grades, base, demo, heatmap, sheet, cache>>

NextVersus == Render_ip_vs_group_kpis

SpecVersus == InitKpi /\ [][NextVersus]_vars

(* C18: in the IP-vs-group comparison, when the IP's aggregate of a metric *)
(* is missing the delta of calc_delta is missing, the cards are drawn with *)
(* the no-data text for that delta, and no delta is computed from a 0 put  *)
(* in place of the missing aggregate.                                      *)
C18_MissingAggregateMissingDelta ==
    view.name = "ip_vs_group_kpis" =>
        \A m \in {"T_rating", "VOD"} :
            IsNaN(view.out.kpis_ip[m]) =>
                /\ IsNaN(view.out.delta[m])
                /\ ~view.out.cards.raised

-----------------------------------------------------------------------------
(* load_data behind st.cache_data(ttl=600), and the six views on the table *)
(* it returns.  cache.now is the wall clock in seconds, cache.at the time  *)
(* of the fetch that filled the entry, cache.reads the number of reads of  *)
(* the worksheet, cache.failed whether the fetch that filled the entry     *)
(* went through the except branch (a record of the run, not a field of     *)
(* Streamlit's cache).  The header has the columns "IP", "prog" (편성),         *)
(* "value" and "ep_label" (회차).                                          *)

TTL == 600

\* mutant: an entry never expires
Mut_CacheHit_forever(c) == c.filled

\* the entry is served while it is younger than the ttl
CacheHit(c) == c.filled /\ c.now - c.at < TTL

\* mutant: the empty table of the except branch is returned but not cached
Mut_load_data_failure_uncached(c, values, fails) ==
    IF CacheHit(c) THEN [value |-> c.value, cache |-> c, hit |-> TRUE, failed |-> FALSE]
    ELSE IF fails
    THEN [value |-> EmptyFrame, cache |-> [c EXCEPT !.reads = @ + 1], hit |-> FALSE,
          failed |-> TRUE]
    ELSE [value |-> LoadFrame(values),
          cache |-> [filled |-> TRUE, at |-> c.now, value |-> LoadFrame(values),
                     now |-> c.now, reads |-> c.reads + 1, failed |-> FALSE],
          hit |-> FALSE,
          failed |-> FALSE]

\* load_data: the cached table, or a read of the worksheet whose result,
\* the empty table of the except branch included, fills the cache
load_data(c, values, fails) ==
    IF CacheHit(c) THEN [value |-> c.value, cache |-> c, hit |-> TRUE, failed |-> FALSE]
    ELSE LET got == IF fails THEN EmptyFrame ELSE LoadFrame(values)
         IN  [value |-> got,
              cache |-> [filled |-> TRUE, at |-> c.now, value |-> got, now |-> c.now,
                         reads |-> c.reads + 1, failed |-> fails],
              hit |-> FALSE,
              failed |-> fails]

HasColumn(frame, c) == c \in ColumnSet(frame)

\* what a view does with the table: "KeyError" when the column it reads
\* first is not there, "message" when it shows a message and returns,
\* "page" when it goes on to draw its page; message tells whether an inline
\* message was shown on the way
ViewOutcome(name, frame, criteria) ==
    CASE name = "render_overview" ->
            IF ~HasColumn(frame, "prog") THEN [kind |-> "KeyError", message |-> FALSE]
            ELSE [kind |-> "page", message |-> FALSE]
      [] name = "render_ip_detail" ->
            IF ~HasColumn(frame, "IP") THEN [kind |-> "KeyError", message |-> FALSE]
            ELSE [kind |-> "page", message |-> frame.rows = <<>> /\ criteria # {}]
      [] name = "render_demographic" ->
            IF ~HasColumn(frame, "IP") THEN [kind |-> "KeyError", message |-> FALSE]
            ELSE IF frame.rows = <<>> THEN [kind |-> "message", message |-> TRUE]
            ELSE [kind |-> "page", message |-> FALSE]
      [] name = "render_comparison" ->
            IF ~HasColumn(frame, "IP")
            THEN [kind |-> "KeyError", message |-> ~HasColumn(frame, "value")]
            ELSE IF frame.rows = <<>> THEN [kind |-> "message", message |-> TRUE]
            ELSE [kind |-> "page", message |-> FALSE]
      [] name = "render_episode" ->
            IF ~HasColumn(frame, "IP") THEN [kind |-> "KeyError", message |-> FALSE]
            ELSE IF frame.rows = <<>> THEN [kind |-> "message", message |-> TRUE]
            ELSE [kind |-> "page", message |-> FALSE]
      [] name = "render_growth_score" ->
            IF ~HasColumn(frame, "IP") THEN [kind |-> "KeyError", message |-> FALSE]
            ELSE IF frame.rows = <<>> THEN [kind |-> "message", message |-> TRUE]
            ELSE [kind |-> "page", message |-> FALSE]

-----------------------------------------------------------------------------
(* The loading specification: the worksheet is edited, time passes in      *)
(* steps of StepSeconds up to MaxTicks steps, and views are rendered; a    *)
(* read of the worksheet may fail.                                         *)

MaxTicks == 5

StepSeconds == 200

LoadHeader == <<"IP", "prog", "value", "ep_label">>

\* no values at all, an empty header row, a header alone, one and two rows
SheetChoices ==
    {<<>>, <<(<<>>)>>, <<LoadHeader>>,
     <<LoadHeader, (<<(<<"A">>), (<<"M">>), (<<"1", ",", "0">>), (<<"1">>)>>)>>,
     <<LoadHeader, (<<(<<"A">>), (<<"M">>), (<<"1", ",", "0">>), (<<"1">>)>>),
                   (<<(<<"B">>), (<<>>), (<<"a">>), (<<"2">>)>>)>>}

InitLoad ==
    /\ sheet \in SheetChoices
    /\ cache = NoCache
    /\ df = EmptyFrame
    /\ ret = NoCall
    /\ series = <<>>
    /\ grades = NoGrades
    /\ base = NoBase
    /\ demo = NoDemo
    /\ heatmap = NoHeatmap
    /\ view = NoView

Tick ==
    /\ cache.now < MaxTicks * StepSeconds
    /\ cache' = [cache EXCEPT !.now = @ + StepSeconds]
    /\ UNCHANGED <<df, ret, series, grades, base, demo, heatmap, view, sheet>>

Edit_sheet ==
    /\ sheet' \in SheetChoices \ {sheet}
    /\ UNCHANGED <<df, ret, series, grades, base, demo, heatmap, view, cache>>

\* one render of a view: load_data, then the view on the table
Rendered(name, got, criteria) ==
    /\ cache' = got.cache
    /\ df' = got.value
    /\ view' = [name |-> name, hit |-> got.hit, failed |-> got.failed,
                out |-> ViewOutcome(name, got.value, criteria)]
    /\ UNCHANGED <<ret, series, grades, base, demo, heatmap, sheet>>

Render_overview ==
    \E fails \in BOOLEAN, criteria \in {{}, {"slot"}} :
        \E got \in {load_data(cache, sheet, fails)} :
            Rendered("render_overview", got, criteria)

Render_ip_detail ==
    \E fails \in BOOLEAN, criteria \in {{}, {"slot"}} :
        \E got \in {load_data(cache, sheet, fails)} :
            Rendered("render_ip_detail", got, criteria)

Render_demographic ==
    \E fails \in BOOLEAN, criteria \in {{}, {"slot"}} :
        \E got \in {load_data(cache, sheet, fails)} :
            Rendered("render_demographic", got, criteria)

Render_comparison ==
    \E fails \in BOOLEAN, criteria \in {{}, {"slot"}} :
        \E got \in {load_data(cache, sheet, fails)} :
            Rendered("render_comparison", got, criteria)

Render_episode ==
    \E fails \in BOOLEAN, criteria \in {{}, {"slot"}} :
        \E got \in {load_data(cache, sheet, fails)} :
            Rendered("render_episode", got, criteria)

Render_growth_score ==
    \E fails \in BOOLEAN, criteria \in {{}, {"slot"}} :
        \E got \in {load_data(cache, sheet, fails)} :
            Rendered("render_growth_score", got, criteria)

NextLoad ==
    \/ Tick
    \/ Edit_sheet
    \/ Render_overview
    \/ Render_ip_detail
    \/ Render_demographic
    \/ Render_comparison
    \/ Render_episode
    \/ Render_growth_score

SpecLoad == InitLoad /\ [][NextLoad]_vars

(* C19: when the loaded table is empty each of the six views shows an      *)
(* inline message and returns; none raises.                                *)
C19_EmptyTableShowsMessage ==
    (view.name # "" /\ df.rows = <<>>) =>
        /\ view.out.kind = "message"
        /\ view.out.message

\* a call of load_data: the clock and the worksheet stay, the view changes
LoadStep == cache'.now = cache.now /\ sheet' = sheet

(* C20: a call of load_data made less than 600 seconds after the fetch     *)
(* that filled the cache returns the cached table without reading the      *)
(* worksheet; a call made after the 600 seconds reads the worksheet again  *)
(* before returning, and what it read is the table returned.               *)
C20_CacheForTenMinutes ==
    [][LoadStep =>
          /\ (cache.filled /\ cache.now - cache.at < 600) =>
                (cache'.reads = cache.reads /\ df' = cache.value /\ cache' = cache)
          /\ (cache.filled /\ cache.now - cache.at > 600) =>
                (cache'.reads = cache.reads + 1 /\ cache'.at = cache.now
                   /\ df' = cache'.value /\ df' \in {EmptyFrame, LoadFrame(sheet)})]_vars

\* the worksheet has been read a second time, after the first entry
\* expired, it was edited since, and the last call was served from the cache
C20_Witness ==
    /\ cache.reads = 2
    /\ view.name # "" /\ view.hit
    /\ cache.at >= 600
    /\ cache.now - cache.at = 400
    /\ df = cache.value
    /\ df # LoadFrame(sheet) /\ df # EmptyFrame

-----------------------------------------------------------------------------
(* What a call leaves of its arguments.  A function works on a local       *)
(* frame that is either the caller's object or a copy of it; an assignment *)
(* to the "value" column of the local frame reaches the caller's table     *)
(* only when the local frame is the caller's object.                       *)

\* the caller's table after local["value"] = values
AssignValue(aliased, frame, values) ==
    IF aliased THEN [i \in DOMAIN frame |-> [frame[i] EXCEPT !.value = values[i]]]
    ELSE frame

\* the three reducers: sub = df[...].copy(), then sub["value"] = ...
ArgAfterReducer(frame) ==
    AssignValue(FALSE, frame, [i \in DOMAIN frame |-> ReplaceZero(frame[i].value)])

\* get_kpi_data_for_all_ips: df = df_all.copy(), then df["value"] = ... and
\* df.loc[df["value"] == 0, "value"] = np.nan
ArgAfterKpi(frame) ==
    AssignValue(FALSE, frame, [i \in DOMAIN frame |-> ReplaceZero(frame[i].value)])

\* get_avg_demo_pop_by_episode: sub = df_src[...].copy(), then sub["value"] = ...
ArgAfterDemoPop(frame) ==
    AssignValue(FALSE, frame, [i \in DOMAIN frame |-> ReplaceZero(frame[i].value)])

\* filter_data_for_episode_comparison assigns to no frame taken from its
\* argument
ArgAfterEpisodeFilter(frame) == frame

\* list.remove(x): the list without the first x
ListRemove(list, x) ==
    LET at == {i \in DOMAIN list : list[i] = x}
    IN  IF at = {} THEN list
        ELSE LET k == CHOOSE i \in at : \A j \in at : i <= j
             IN  SubSeq(list, 1, k - 1) \o SubSeq(list, k + 1, Len(list))

\* the caller's group_criteria after render_ip_vs_group_comparison: a
\* criterion the IP has no value for is removed from the list itself
CriteriaAfterIpVsGroup(df_all, ip, group_criteria) ==
    LET df_ip   == SelectSeq(df_all, LAMBDA r : r.IP = ip)
        ip_prog == ModeProg(df_ip)
        ip_year == ModeYear(df_ip)
        HasItem(list, x) == \E i \in DOMAIN list : list[i] = x
        after1  == IF HasItem(group_criteria, "slot") /\ ip_prog = ""
                   THEN ListRemove(group_criteria, "slot") ELSE group_criteria
    IN  IF HasItem(after1, "year") /\ ip_year = NaT
        THEN ListRemove(after1, "year") ELSE after1

\* the selections of the criteria multiselect, render_comparison passing
\* only non-empty ones
CriteriaLists == {<<"slot">>, <<"year">>, <<"slot", "year">>, <<"year", "slot">>}

-----------------------------------------------------------------------------
(* The call specification: a table of metric rows or of slot/year rows;    *)
(* one function is called on it, df and view.criteria being the caller's   *)
(* table and list after the call.                                          *)

InitCall == InitKpi \/ InitGroup

IsMetricTable == "metric" \in DOMAIN df[1]

Call_reducers ==
    \E fn \in {"mean_of_ip_episode_mean", "mean_of_ip_episode_sum", "mean_of_ip_sums"} :
        /\ view.name = "" /\ IsMetricTable
        /\ df' = ArgAfterReducer(df)
        /\ view' = [name |-> fn, df_before |-> df, criteria_before |-> <<>>, criteria |-> <<>>]
        /\ UNCHANGED <<ret, series, grades, base, demo, heatmap, sheet, cache>>

Call_kpi_data ==
    /\ view.name = "" /\ IsMetricTable
    /\ df' = ArgAfterKpi(df)
    /\ view' = [name |-> "get_kpi_data_for_all_ips", df_before |-> df,
                criteria_before |-> <<>>, criteria |-> <<>>]
    /\ UNCHANGED <<ret, series, grades, base, demo, heatmap, sheet, cache>>

Call_demo_pop ==
    /\ view.name = "" /\ IsMetricTable
    /\ df' = ArgAfterDemoPop(df)
    /\ view' = [name |-> "get_avg_demo_pop_by_episode", df_before |-> df,
                criteria_before |-> <<>>, criteria |-> <<>>]
    /\ UNCHANGED <<ret, series, grades, base, demo, heatmap, sheet, cache>>

Call_episode_filter ==
    /\ view.name = "" /\ IsMetricTable
    /\ df' = ArgAfterEpisodeFilter(df)
    /\ view' = [name |-> "filter_data_for_episode_comparison", df_before |-> df,
                criteria_before |-> <<>>, criteria |-> <<>>]
    /\ UNCHANGED <<ret, series, grades, base, demo, heatmap, sheet, cache>>

\* df_ip and df_group are copies; only the list is written to
Call_render_ip_vs_group_comparison ==
    \E k \in DOMAIN Ips(df), group_criteria \in CriteriaLists :
        /\ view.name = "" /\ ~IsMetricTable
        /\ df' = df
        /\ view' = [name |-> "render_ip_vs_group_comparison", df_before |-> df,
                    criteria_before |-> group_criteria,
                    criteria |-> CriteriaAfterIpVsGroup(df, Ips(df)[k], group_criteria)]
        /\ UNCHANGED <<ret, series, grades, base, demo, heatmap, sheet, cache>>

NextCall ==
    \/ Call_reducers
    \/ Call_kpi_data
    \/ Call_demo_pop
    \/ Call_episode_filter
    \/ Call_render_ip_vs_group_comparison

SpecCall == InitCall /\ [][NextCall]_vars

(* C21: no aggregation or comparison function changes what its caller      *)
(* passed in: after the call the table has the rows and values it had, and *)
(* the list of selected group criteria has the elements it had.            *)
C21_ArgumentsUntouched ==
    view.name # "" => (df = view.df_before /\ view.criteria = view.criteria_before)

-----------------------------------------------------------------------------
(* The composite labels of the growth-score view: the text shown on the    *)
(* grade cards and in the table of all the IPs.                            *)

\* Series.astype(str) of a column of labels: the missing label becomes text
AsStr(g) == IF g = NaNGrade THEN "nan" ELSE g

\* the text a card shows in place of a missing value (an en dash)
Placeholder == "-"

\* pd.notna(val) of a cell of a composite column: the cell holds the text
\* built by the concatenation, and a text is never missing
NotNaLabel(val) == val \in STRING

\* base[disp + "_종합"] and base["종합등급"]: the two casts, concatenated
CompositeLabel(abs_grade, slope_grade) == AsStr(abs_grade) \o AsStr(slope_grade)

\* _grade_card and the overall card: val if pd.notna(val) else the placeholder
CardText(val) == IF NotNaLabel(val) THEN val ELSE Placeholder

\* the slopes of the IPs: the rows of the table again, turned by r places
Turned(raw, r) == [i \in DOMAIN raw |-> raw[((i - 1 + r) % Len(raw)) + 1]]

\* the columns of base that the cards and the table read
GrowthLabels(abs_raw, slope_raw) ==
    LET Labelled(a, s) ==
            [name          |-> "growth",
             abs_grade     |-> a.grade,
             slope_grade   |-> s.grade,
             composite     |-> [m \in DOMAIN METRICS |->
                                  [i \in DOMAIN abs_raw |->
                                      CompositeLabel(a.grade[m][i], s.grade[m][i])]],
             overall_abs   |-> a.overall,
             overall_slope |-> s.overall,
             overall       |-> [i \in DOMAIN abs_raw |->
                                  CompositeLabel(a.overall[i], s.overall[i])]]
    IN  CHOOSE v \in {Labelled(a, s) : a \in {GradeBase(abs_raw, "abs")},
                                       s \in {GradeBase(slope_raw, "slope")}} : TRUE

MaxLabelIPs == 4

\* one turn of "for ip in ips": rows.append(row)
Append_label_row ==
    \E k \in 1..NBaseRows :
        /\ view.name = ""
        /\ Len(base.raw) < MaxLabelIPs
        /\ base.raw # <<>> => BaseRowIndex(base.raw[Len(base.raw)]) <= k
        /\ base' = [base EXCEPT !.raw = Append(base.raw, BaseRowAt(k))]
        /\ UNCHANGED <<df, ret, series, grades, demo, heatmap, view, sheet, cache>>

\* the grading pass, then the cards of the selected IP and the table
Render_growth_labels ==
    \E r \in 0..(MaxLabelIPs - 1), selected \in 1..MaxLabelIPs :
        /\ view.name = ""
        /\ selected \in DOMAIN base.raw
        /\ r < Len(base.raw)
        /\ \E v \in {GrowthLabels(base.raw, Turned(base.raw, r))} :
              view' = [name          |-> v.name,
                       abs_grade     |-> v.abs_grade,
                       slope_grade   |-> v.slope_grade,
                       overall_abs   |-> v.overall_abs,
                       overall_slope |-> v.overall_slope,
                       focus         |-> selected,
                       card          |-> [m \in DOMAIN METRICS |->
                                             CardText(v.composite[m][selected])],
                       overall_card  |-> CardText(v.overall[selected]),
                       table         |-> [i \in DOMAIN base.raw |->
                                             [overall   |-> v.overall[i],
                                              composite |-> [m \in DOMAIN METRICS |->
                                                               v.composite[m][i]]]]]
        /\ UNCHANGED <<df, ret, series, grades, base, demo, heatmap, sheet, cache>>

NextLabel ==
    \/ Append_label_row
    \/ Render_growth_labels

SpecLabel == InitOverall /\ [][NextLabel]_vars

(* C22: in the growth-score view, when the absolute or the trend grade of  *)
(* an IP for a metric is missing, the composite label shown for that       *)
(* metric, on the grade card and in the table, is the placeholder, and     *)
(* likewise the overall composite label when an overall grade is missing.  *)
C22_MissingGradePlaceholder ==
    view.name = "growth" =>
        /\ \A m \in DOMAIN METRICS :
              /\ (view.abs_grade[m][view.focus] = NaNGrade
                    \/ view.slope_grade[m][view.focus] = NaNGrade)
                 => view.card[m] = Placeholder
              /\ \A i \in DOMAIN view.table :
                    (view.abs_grade[m][i] = NaNGrade \/ view.slope_grade[m][i] = NaNGrade)
                    => view.table[i].composite[m] = Placeholder
        /\ (view.overall_abs[view.focus] = NaNGrade
              \/ view.overall_slope[view.focus] = NaNGrade)
           => view.overall_card = Placeholder
        /\ \A i \in DOMAIN view.table :
              (view.overall_abs[i] = NaNGrade \/ view.overall_slope[i] = NaNGrade)
              => view.table[i].overall = Placeholder

-----------------------------------------------------------------------------
(* The main grading pass of render_growth_score at the selected cutoff,    *)
(* set against the cutoff sweep.                                           *)

_abs_value(ip_df, metric, media, ep_cutoff) ==
    LET ip_df2 == _filter_to_ep(ip_df, ep_cutoff)
    IN  IF metric \in {"H_rating", "T_rating"}
        THEN mean_of_ip_episode_mean(ip_df2, metric, MediaNone)
        ELSE IF metric = "viewers" /\ media = MediaList({"LIVE"})
        THEN mean_of_ip_episode_sum(ip_df2, "viewers", MediaList({"TVING LIVE"}))
        ELSE IF metric = "viewers" /\ media = MediaList({"VOD"})
        THEN mean_of_ip_episode_sum(ip_df2, "viewers", MediaList({"TVING VOD"}))
        ELSE NaN

\* base at the selected cutoff: one row per IP of the absolute values, or of
\* the slopes
BaseRows(df_all, ep_cutoff, axis) ==
    LET ips == Ips(df_all)
    IN  [k \in DOMAIN ips |->
            [m \in DOMAIN METRICS |->
                IF axis = "abs"
                THEN _abs_value(RowsOfIP(df_all, ips[k]), METRICS[m][1], METRICS[m][2],
                                ep_cutoff)
                ELSE _slope(RowsOfIP(df_all, ips[k]), METRICS[m][1], METRICS[m][2],
                            ep_cutoff)]]

\* base["종합_절대등급"] and base["종합_상승등급"] of the selected IP in
\* the main pass at one cutoff
MainGrades(df_all, selected_ip, ep_cutoff) ==
    LET k == IpIndex(df_all, selected_ip)
    IN  CHOOSE g \in
          {<<a[k], s[k]>> :
             a \in {GradeBase(BaseRows(df_all, ep_cutoff, "abs"), "abs").overall},
             s \in {GradeBase(BaseRows(df_all, ep_cutoff, "slope"), "slope").overall}} :
          TRUE

(* C23: for every table, selected IP and evaluated cutoff n, the overall   *)
(* absolute and trend grades the sweep reports at n are the overall grades *)
(* of the main grading pass run with the cutoff n (a missing trend grade   *)
(* is reported as the empty text); the sweep reports a row at n exactly    *)
(* when the main pass has an overall absolute grade at n, one row per      *)
(* cutoff at most, and none for a cutoff outside the evaluated list.       *)
C23_SweepAgreesWithMainPass ==
    view.name = "growth_score" =>
        /\ \A j \in DOMAIN view.evo_rows :
              /\ \E c \in DOMAIN view.Ns : view.Ns[c] = view.evo_rows[j].N
              /\ \A i \in DOMAIN view.evo_rows :
                    i < j => view.evo_rows[i].N < view.evo_rows[j].N
        /\ \A c \in DOMAIN view.Ns :
              \E g \in {MainGrades(df, view.selected_ip, view.Ns[c])} :
                 IF g[1] = NaNGrade
                 THEN \A j \in DOMAIN view.evo_rows : view.evo_rows[j].N # view.Ns[c]
                 ELSE \E j \in DOMAIN view.evo_rows :
                         /\ view.evo_rows[j].N = view.Ns[c]
                         /\ view.evo_rows[j].ABS_GRADE = g[1]
                         /\ view.evo_rows[j].SLOPE_GRADE
                               = (IF g[2] = NaNGrade THEN "" ELSE g[2])

\* an IP graded at both cutoffs, differently: its grade at cutoff 4 is not
\* the one of cutoff 2
C23_Witness ==
    /\ view.name = "growth_score"
    /\ view.Ns = <<2, 4>>
    /\ Len(view.evo_rows) = 2
    /\ view.evo_rows[1].ABS_GRADE # view.evo_rows[2].ABS_GRADE

-----------------------------------------------------------------------------
(* The main grading pass as a whole, for a table and a selected cutoff:    *)
(* the values, the slopes and the grades of every IP.                      *)

\* base after lines 1847-1863, for the IPs of the table in the order of ips
MainPass(df_all, ep_cutoff) ==
    LET Passed(a, s) ==
            [ips           |-> Ips(df_all),
             abs           |-> a.raw,
             slope         |-> s.raw,
             abs_grade     |-> a.grade,
             slope_grade   |-> s.grade,
             overall_abs   |-> a.overall,
             overall_slope |-> s.overall]
    IN  CHOOSE b \in
          {Passed(a, s) :
             a \in {GradeBase(ra, "abs") : ra \in {BaseRows(df_all, ep_cutoff, "abs")}},
             s \in {GradeBase(rs, "slope") : rs \in {BaseRows(df_all, ep_cutoff, "slope")}}} :
          TRUE

\* render_growth_score with ep_cutoff one of the first cutoffs of EP_CHOICES
Grade_at_cutoff ==
    \E c \in 1..MaxCutoffIdx : \E b \in {MainPass(df, EP_CHOICES[c])} :
        /\ view.name = ""
        /\ view' = [name |-> "main_pass", ep_cutoff |-> EP_CHOICES[c], base |-> b]
        /\ UNCHANGED <<df, ret, series, grades, base, demo, heatmap, sheet, cache>>

NextCutoff == Grade_at_cutoff

SpecCutoff == InitSweep /\ [][NextCutoff]_vars

\* the rows of the table with an episode number of at most n
RowsUpTo(frame, n) == SelectSeq(frame, LAMBDA r : r.ep \in 1..n)

\* what base holds of one IP: its values, slopes and grades (all missing
\* for an IP without a row in the table)
OfIP(b, ip) ==
    IF \E k \in DOMAIN b.ips : b.ips[k] = ip
    THEN LET k == CHOOSE j \in DOMAIN b.ips : b.ips[j] = ip
         IN  [abs           |-> b.abs[k],
              slope         |-> b.slope[k],
              abs_grade     |-> [m \in DOMAIN METRICS |-> b.abs_grade[m][k]],
              slope_grade   |-> [m \in DOMAIN METRICS |-> b.slope_grade[m][k]],
              overall_abs   |-> b.overall_abs[k],
              overall_slope |-> b.overall_slope[k]]
    ELSE [abs           |-> [m \in DOMAIN METRICS |-> NaN],
          slope         |-> [m \in DOMAIN METRICS |-> NaN],
          abs_grade     |-> [m \in DOMAIN METRICS |-> NaNGrade],
          slope_grade   |-> [m \in DOMAIN METRICS |-> NaNGrade],
          overall_abs   |-> NaNGrade,
          overall_slope |-> NaNGrade]

(* C24: the grades at the cutoff n depend only on the rows whose episode   *)
(* number is at most n: every IP's absolute values, slopes, per-metric     *)
(* grades and overall grades are those of the table reduced to these rows, *)
(* so that two tables with the same rows up to n give the same results,    *)
(* whatever rows with a larger or a missing episode number they hold.      *)
C24_OnlyRowsUpToCutoff ==
    view.name = "main_pass" =>
        \E reduced \in {MainPass(RowsUpTo(df, view.ep_cutoff), view.ep_cutoff)} :
            \A k \in DOMAIN view.base.ips :
                OfIP(view.base, view.base.ips[k]) = OfIP(reduced, view.base.ips[k])

\* a graded IP of a table that also holds a valued row beyond the cutoff and
\* a row without an episode number
C24_Witness ==
    /\ view.name = "main_pass"
    /\ view.ep_cutoff = 2
    /\ \E i \in DOMAIN df : df[i].ep = 4 /\ ~IsZero(df[i].value)
    /\ \E i \in DOMAIN df : df[i].ep = NaNEp /\ ~IsZero(df[i].value)
    /\ \E k \in DOMAIN view.base.ips : view.base.overall_abs[k] # NaNGrade

-----------------------------------------------------------------------------
(* Order and small-sample properties of _quintile_grade, under the grading *)
(* specification.                                                          *)

\* the place of a label in the list handed to _quintile_grade (1 is best)
LabelPos(g) == CHOOSE k \in DOMAIN grades.labels : grades.labels[k] = g

(* C25: _quintile_grade is monotone in the value: of two non-missing       *)
(* inputs of one call, the one at least as large gets a label at least as  *)
(* good, and equal values get the same label.                              *)
C25_GradeMonotone ==
    grades.labels # <<>> =>
        \A i \in DOMAIN series, j \in DOMAIN series :
            (~IsNaN(series[i]) /\ ~IsNaN(series[j]) /\ RLe(series[j], series[i]))
            => LabelPos(grades.out[i]) <= LabelPos(grades.out[j])

\* a call with two equal values and a larger one graded strictly better
C25_Witness ==
    /\ grades.labels = COL_LABELS
    /\ \E i \in DOMAIN series, j \in DOMAIN series :
          /\ i # j /\ ~IsNaN(series[i]) /\ series[i] = series[j]
          /\ grades.out[i] = grades.out[j]
    /\ \E i \in DOMAIN series, j \in DOMAIN series :
          /\ ~IsNaN(series[i]) /\ ~IsNaN(series[j]) /\ RLt(series[j], series[i])
          /\ LabelPos(grades.out[i]) < LabelPos(grades.out[j])

(* C26: with fewer than five non-missing inputs no input gets the best     *)
(* label; with N distinct non-missing values the best one gets the label   *)
(* of the bin that holds 1/N; a single non-missing value gets the worst    *)
(* label.                                                                  *)
C26_SmallSampleLabels ==
    grades.labels # <<>> =>
        /\ NumValid < 5 => \A i \in DOMAIN series : grades.out[i] # grades.labels[1]
        /\ AllDistinct =>
              \A i \in DOMAIN series :
                  (~IsNaN(series[i]) /\ Better(i) = {})
                  => grades.out[i] = grades.labels[BinOf(1, NumValid)]
        /\ NumValid = 1 =>
              \A i \in DOMAIN series :
                  ~IsNaN(series[i]) => grades.out[i] = grades.labels[Len(grades.labels)]

\* four distinct values and a missing one: the best is graded A, not S
C26_Witness ==
    /\ grades.labels = ROW_LABELS
    /\ Len(series) = 5 /\ NumValid = 4 /\ AllDistinct
    /\ \E i \in DOMAIN series :
          ~IsNaN(series[i]) /\ Better(i) = {} /\ grades.out[i] = "A"

-----------------------------------------------------------------------------
(* The rank of an IP within its comparison group: _rank_within_program of  *)
(* render_ip_detail.  The result (r, total) is a record; ranked is FALSE   *)
(* for (None, 0).                                                          *)

\* s.rank(method="min", ascending=False) at one label of the index
RankMinDesc(s, ip) == Cardinality({j \in DOMAIN s : RLt(s[ip], s[j])}) + 1

_rank_within_program(base_df, metric_name, ip_name, value, mode, media) ==
    LET Ranked(s) ==
            IF DOMAIN s = {} \/ IsNaN(value)
            THEN [ranked |-> FALSE, r |-> 0, total |-> 0]
            ELSE [ranked |-> TRUE,
                  r      |-> IF ip_name \notin DOMAIN s
                             THEN Cardinality({j \in DOMAIN s : RLt(value, s[j])}) + 1
                             ELSE RankMinDesc(s, ip_name),
                  total  |-> Cardinality(DOMAIN s)]
    IN  CHOOSE out \in {Ranked(s) : s \in {_series_ip_metric(base_df, metric_name, mode, media)}} :
            TRUE

\* the (metric, mode, media) of the calls at lines 780-786 on the metrics of
\* the table
RankCalls ==
    {<<"T_rating", "mean", MediaNone>>,
     <<"viewers", "ep_sum_mean", MediaList({"TVING VOD"})>>,
     <<"viewers", "sum", MediaNone>>}

\* the value handed over: missing, or below, among and above the values of
\* the table
RankValues == {NaN, RInt(1), RInt(2), RInt(3)}

Call_rank_within_program ==
    \E call \in RankCalls, ip_name \in {IPNames[k] : k \in DOMAIN IPNames}, value \in RankValues :
        /\ view.name = ""
        /\ view' = [name    |-> "_rank_within_program",
                    ip_name |-> ip_name,
                    value   |-> value,
                    s       |-> _series_ip_metric(df, call[1], call[2], call[3]),
                    out     |-> _rank_within_program(df, call[1], ip_name, value,
                                                     call[2], call[3])]
        /\ UNCHANGED <<df, ret, series, grades, base, demo, heatmap, sheet, cache>>

NextRank == Call_rank_within_program

SpecRank == InitKpi /\ [][NextRank]_vars

(* C27: _rank_within_program returns (None, 0) when the group series is    *)
(* empty or the value of the IP is missing; otherwise (r, total) with      *)
(* total the number of IPs of the group series and 1 <= r <= total, also   *)
(* when the selected IP has no entry in the series.                        *)
C27_RankWithinTotal ==
    view.name = "_rank_within_program" =>
        IF DOMAIN view.s = {} \/ IsNaN(view.value)
        THEN ~view.out.ranked /\ view.out.total = 0
        ELSE /\ view.out.ranked
             /\ view.out.total = Cardinality(DOMAIN view.s)
             /\ view.out.r \in 1..view.out.total

-----------------------------------------------------------------------------
(* The radar of the IP-vs-group comparison: the per-IP values that         *)
(* get_kpi_data_for_all_ips ranks, beside the KPIs that                    *)
(* get_agg_kpis_for_ip_page4 computes from the rows of one IP.  The table  *)
(* holds at most MaxRadarRows rows of a target rating, a TVING VOD         *)
(* audience and a digital view count.                                      *)

MaxRadarRows == 3

RadarMetricMedia ==
    <<(<<"T_rating", "TV">>), (<<"viewers", "TVING VOD">>), (<<"views", "SNS">>)>>

NRadarRows == Len(IPNames) * Len(RadarMetricMedia) * Len(KpiEpLabels) * Len(KpiValueCells)

RadarRowAt(k) ==
    LET a == k - 1
        i == a % Len(IPNames)
        b == a \div Len(IPNames)
        m == b % Len(RadarMetricMedia)
        c == b \div Len(RadarMetricMedia)
        l == c % Len(KpiEpLabels)
        v == c \div Len(KpiEpLabels)
    IN  [IP |-> IPNames[i + 1], metric |-> RadarMetricMedia[m + 1][1],
         media |-> RadarMetricMedia[m + 1][2], label |-> KpiEpLabels[l + 1],
         value |-> KpiValueCells[v + 1]]

InitRadar ==
    /\ \E m \in 1..MaxRadarRows : \E s \in [1..m -> 1..NRadarRows] :
          NonDecreasing(s) /\ df = _df_basic_clean([i \in DOMAIN s |-> RadarRowAt(s[i])])
    /\ ret = NoCall
    /\ series = <<>>
    /\ grades = NoGrades
    /\ base = NoBase
    /\ demo = NoDemo
    /\ heatmap = NoHeatmap
    /\ view = NoView
    /\ sheet = <<>>
    /\ cache = NoCache

RadarMetrics == {"T_rating", "VOD", "views"}

\* the value of one IP in a column of kpi_df (missing for an IP that is not
\* in its index)
RankedValue(kpi_rows, ip, m) ==
    IF \E k \in DOMAIN kpi_rows : kpi_rows[k].IP = ip
    THEN LET k == CHOOSE j \in DOMAIN kpi_rows : kpi_rows[j].IP = ip
         IN  kpi_rows[k].kpi[m]
    ELSE NaN

\* render_ip_vs_group_comparison on an IP: the table behind the percentiles
\* of the radar and the KPIs of the IP
Call_radar_kpis ==
    \E ip \in {df[i].IP : i \in DOMAIN df} :
        \E all \in {get_kpi_data_for_all_ips(df)},
           alone \in {get_agg_kpis_for_ip_page4(RowsOfIP(df, ip))} :
            /\ view.name = ""
            /\ view' = [name   |-> "radar",
                        ip     |-> ip,
                        ranked |-> [m \in RadarMetrics |-> RankedValue(all, ip, m)],
                        kpis   |-> alone]
            /\ UNCHANGED <<df, ret, series, grades, base, demo, heatmap, sheet, cache>>

NextRadar == Call_radar_kpis

SpecRadar == InitRadar /\ [][NextRadar]_vars

(* C28: for every radar metric the value of an IP that                     *)
(* get_kpi_data_for_all_ips ranks is the KPI that                          *)
(* get_agg_kpis_for_ip_page4 reports for the rows of that IP alone; rows   *)
(* without an episode number are treated alike by both.                    *)
C28_RankedValueIsCardKpi ==
    view.name = "radar" => \A m \in RadarMetrics : view.ranked[m] = view.kpis[m]

-----------------------------------------------------------------------------
(* The heatmap on large ratios: a base and a comparison frame over the     *)
(* episodes 1..MaxHeatEp whose cells are 0, 100 or 1099, compared once.    *)

MaxHeatEp == 1

HeatValues == <<RInt(0), RInt(100), RInt(1099)>>

NHeatRows == Len(HeatValues) * Len(HeatValues)

HeatCellsAt(k) == <<HeatValues[((k - 1) % Len(HeatValues)) + 1],
                    HeatValues[((k - 1) \div Len(HeatValues)) + 1]>>

HeatFrame(f) ==
    LET eps == SortedSeq({e \in DOMAIN f : f[e] # 0})
    IN  [i \in DOMAIN eps |-> [ep |-> _fmt_ep(eps[i]), cells |-> HeatCellsAt(f[eps[i]])]]

InitHeat ==
    /\ \E f \in [1..MaxHeatEp -> 0..NHeatRows], g \in [1..MaxHeatEp -> 0..NHeatRows] :
          demo = [NoDemo EXCEPT !.df_base = HeatFrame(f), !.df_comp = HeatFrame(g)]
    /\ df = <<>>
    /\ ret = NoCall
    /\ series = <<>>
    /\ grades = NoGrades
    /\ base = NoBase
    /\ heatmap = NoHeatmap
    /\ view = NoView
    /\ sheet = <<>>
    /\ cache = NoCache

SpecHeat == InitHeat /\ [][NextDemo]_vars

\* the cells of df_index with a zero comparison value and a non-zero base
ZeroCompCells ==
    {ic \in (DOMAIN demo.df_index) \X (DOMAIN DEMO_COLS_ORDER) :
        /\ IsZero(demo.df_index[ic[1]].comp[ic[2]])
        /\ ~IsZero(demo.df_index[ic[1]].base[ic[2]])}

\* the largest magnitude among 10 and the indexes of the cells of S
RECURSIVE MaxMagnitude(_)
MaxMagnitude(S) ==
    IF S = {} THEN RInt(10)
    ELSE LET ic == CHOOSE x \in S : TRUE
         IN  RMax2(RAbs(demo.df_index[ic[1]].index[ic[2]]), MaxMagnitude(S \ {ic}))

(* C29: a cell of the demographic heatmap is labelled "INF" and left out   *)
(* of the colour range if and only if its comparison value is 0 and its    *)
(* base value is not; an index computed from a non-zero comparison value   *)
(* is shown as a signed percentage and counted in the colour range,        *)
(* whatever its magnitude.                                                 *)
C29_InfOnlyForZeroComparison ==
    (demo.done /\ heatmap.shown) =>
        /\ \A i \in DOMAIN demo.df_index, c \in DOMAIN DEMO_COLS_ORDER :
              /\ heatmap.text[i][c].kind = "INF" <=> <<i, c>> \in ZeroCompCells
              /\ ~IsZero(demo.df_index[i].comp[c]) => heatmap.text[i][c].kind = "pct"
        /\ heatmap.range[2]
             = MaxMagnitude(((DOMAIN demo.df_index) \X (DOMAIN DEMO_COLS_ORDER)) \ ZeroCompCells)

-----------------------------------------------------------------------------
(* A failed fetch, under the loading specification.                        *)

(* C30: a failure while reading or normalizing the worksheet inside        *)
(* load_data becomes an empty table stored in the cache like a successful  *)
(* result: every call of load_data made less than 600 seconds after the    *)
(* failed fetch returns the empty table, and the worksheet is not read     *)
(* again before the entry expires.                                         *)
C30_FailureCachedAsEmptyTable ==
    [][LoadStep =>
          /\ view'.failed =>
                /\ df' = EmptyFrame
                /\ cache'.filled /\ cache'.failed
                /\ cache'.value = EmptyFrame /\ cache'.at = cache.now
          /\ (cache.filled /\ cache.failed /\ cache.now - cache.at < 600) =>
                /\ df' = EmptyFrame
                /\ cache'.reads = cache.reads
                /\ cache' = cache
                /\ view'.hit]_vars

\* a render 400 seconds after a failed fetch is served the empty table,
\* though the worksheet holds rows
C30_Witness ==
    /\ view.name # "" /\ view.hit
    /\ cache.filled /\ cache.failed
    /\ cache.now - cache.at = 400
    /\ df = EmptyFrame
    /\ LoadFrame(sheet) # EmptyFrame

====
